---- MODULE Spec2Model ----
(***************************************************************************)
(* Model of napcat-plugin-bilibili-notifier: the subscription store        *)
(* (core/storage), the plugin lifecycle (index.ts, core/state), the live   *)
(* monitor (services/live-monitor-service), the feed monitor               *)
(* (services/dynamic-monitor-service) and the notification service.        *)
(*                                                                         *)
(* JavaScript runs every synchronous stretch of code to completion, so an  *)
(* action of this model is one such stretch: a whole synchronous store     *)
(* call, or the part of an async function between two awaits on real I/O   *)
(* (the HTTP fetch, the send_msg transport call).                          *)
(***************************************************************************)
EXTENDS Integers, Sequences, FiniteSets, Bags, TLC

\* ------------------------------------------------------------------ bounds
\* the ids commands and polls are drawn from
Uids == {1, 2}
\* group and user ids are the decimal strings of QQ numbers; the model keeps
\* the number
GroupIds == {1, 2}
UserIds == {1}
\* poll cycles of the live monitor that may be in flight together (the code
\* sets no limit)
MaxInFlight == 2

\* liveStatus: 0 = offline, 1 = live, 2 = carousel
Statuses == {0, 1, 2}
LIVE == 1
\* live_time reported by the remote API for a room that is live (0 otherwise)
LiveStartTime == 5

\* ------------------------------------------------------------------ state
\* A Map is modelled by the function from its keys to its values. Its
\* iteration order (insertion order, ascending key order after a reload from
\* JSON) is not kept: where the code iterates a Map the model goes through the
\* keys in ascending order.
VARIABLES
    streamers,   \* Map<number, Streamer>: uid -> [uid, liveStatus, liveTime]
    groupSubs,   \* Map<string, GroupSubscription>:
                 \*   groupId -> [groupId, streamerUids, enableAtAll, enabled]
    userSubs,    \* Map<string, UserSubscription>: userId -> [userId, streamerUids]
    index,       \* SubscriptionIndex: [streamerToGroups, streamerToUsers], each a
                 \* function from the uids that have an entry to an array of ids
    disk,        \* the JSON data files: [streamers, groupSubs, userSubs, liveCache]
    ctxReady,    \* pluginState._ctx is set (between plugin_init and plugin_cleanup)
    instance,    \* live-monitor-service's module variable `instance`: 0 for null,
                 \* else the name of a LiveMonitorService object
    monitors,    \* the LiveMonitorService objects still referenced (by `instance`
                 \* or by a poll cycle in flight): name -> [isRunning, cronJob,
                 \* liveCache]; liveCache: uid -> [lastLiveStatus, lastLiveTime]
    cycles,      \* the bag of checkAllStreamers calls in flight, each
                 \* [gen, pc, todo, statusMap, kind, groups, users]
    lastOp,      \* the store call a command made in the last step, and its result
    events,      \* the transitions processStreamerStatus classified in the last step
    completed,   \* the processStreamerStatus calls that returned in the last step
    sent,        \* the send_msg calls issued in the last step
    \* history variables of the properties below; no action of the program reads them
    obs,         \* uid -> the status of the last poll result the current monitor
                 \* finished processing for it while it was the running one, -1 for none
    fresh,       \* the uids the current LiveMonitorService has not processed yet
    probe,       \* for each element of events: [first, seen], what fresh and obs
                 \* said about its uid before the step
    scen,        \* uid -> how far the polls of the entity got through the scenario
                 \* "cached OFFLINE; polls report LIVE, LIVE, OFFLINE" (9: an event
                 \* differed from the expected one)
    \* the feed monitor (dynamic-monitor-service) and what it watches
    clock,       \* Date.now(), milliseconds
    remote,      \* uid -> the set of items in the streamer's feed on the remote site,
                 \* each [id, pub_ts, live, at]: pub_ts the publish time in seconds as
                 \* the site stamps it, live: the type is DYNAMIC_TYPE_LIVE, at: the
                 \* local time at which it appeared (read by no action)
    dynInstance, \* dynamic-monitor-service's module variable `instance` is set
    dynamicCache,\* the Map of the DynamicMonitorService: uid -> [lastCheckTime]
    dynDisk,     \* dynamic_cache.json
    dynCycles,   \* the bag of its checkAllStreamers calls in flight, each [n, pc,
                 \* todo, now, queue, groups, users, fetched, order]
    \* history variables of the feed properties
    polls,       \* how many of these calls got to a fetch so far
    notified,    \* the bag of send_msg calls made for feed items, each
                 \* [item, pub_ts, at, poll, to, id]
    marks,       \* poll -> the watermark it compared the items against, -1 for none
    seededAt,    \* uid -> the local time its watermark was seeded at, -1 for never
    polled,      \* the uids whose first feed poll is over
    seen,        \* the ids of the items some poll with a watermark went through
    \* history variable of the delivery properties
    attempts,    \* the sendToSubscribers call the live monitor made last: [open,
                 \* uid, groups, users, skipped, tried, last, failed]
    \* history variable of the end-to-end scenario
    pipe         \* groupId -> how far the group got through "subscribe an unknown
                 \* streamer, store the streamer, subscribe, the next poll reports
                 \* LIVE" (4: all of it, 5: a later poll came, 8: the scenario was left)


\* ------------------------------------------------------- array / Map helpers
Includes(arr, x) == \E i \in 1..Len(arr) : arr[i] = x

\* Array.prototype.indexOf, 1-based; 0 stands for -1
IndexOf(arr, x) ==
    IF Includes(arr, x) THEN CHOOSE i \in 1..Len(arr) :
                                 arr[i] = x /\ \A j \in 1..(i - 1) : arr[j] # x
    ELSE 0

\* arr.splice(i, 1)
Splice(arr, i) == [j \in 1..(Len(arr) - 1) |-> IF j < i THEN arr[j] ELSE arr[j + 1]]

ToSet(arr) == {arr[i] : i \in 1..Len(arr)}

\* the elements of a set of numbers as an array, ascending
RECURSIVE Ascending(_)
Ascending(S) ==
    IF S = {} THEN << >>
    ELSE LET m == CHOOSE x \in S : \A y \in S : x <= y
         IN  <<m>> \o Ascending(S \ {m})

EmptyMap == << >>
\* Map.set(k, v), obj[k] = v
MapSet(f, k, v) == [x \in (DOMAIN f) \cup {k} |-> IF x = k THEN v ELSE f[x]]
\* Map.delete(k), delete obj[k]
MapDelete(f, k) == [x \in (DOMAIN f) \ {k} |-> f[x]]

HasStreamer(ss, uid) == uid \in DOMAIN ss

\* ------------------------------------------------------------ persistence
\* saveStreamers / saveGroupSubs / saveUserSubs write the Map as an object
\* keyed by id (JSON.stringify), the loaders read it back entry by entry
saveStreamers(d, ss) == [d EXCEPT !.streamers = ss]
saveGroupSubs(d, gs) == [d EXCEPT !.groupSubs = gs]
saveUserSubs(d, us) == [d EXCEPT !.userSubs = us]
saveAll(d, ss, gs, us) == saveUserSubs(saveGroupSubs(saveStreamers(d, ss), gs), us)

\* ------------------------------------------------------------ reverse index
\* the ids of the subscriptions whose streamerUids include uid
GroupIdsWith(gs, uid) ==
    Ascending({g \in DOMAIN gs : Includes(gs[g].streamerUids, uid)})
UserIdsWith(us, uid) ==
    Ascending({u \in DOMAIN us : Includes(us[u].streamerUids, uid)})

updateStreamerIndexDropsGroups(idx, gs, us, uid) ==
    [streamerToGroups |-> MapSet(idx.streamerToGroups, uid, << >>),
     streamerToUsers  |-> MapSet(idx.streamerToUsers, uid, UserIdsWith(us, uid))]

updateStreamerIndex(idx, gs, us, uid) ==
    [streamerToGroups |-> MapSet(idx.streamerToGroups, uid, GroupIdsWith(gs, uid)),
     streamerToUsers  |-> MapSet(idx.streamerToUsers, uid, UserIdsWith(us, uid))]

\* rebuildIndex: an entry for every uid that some subscription lists
rebuildIndex(gs, us) ==
    [streamerToGroups |->
        [uid \in UNION {ToSet(gs[g].streamerUids) : g \in DOMAIN gs} |->
            GroupIdsWith(gs, uid)],
     streamerToUsers |->
        [uid \in UNION {ToSet(us[u].streamerUids) : u \in DOMAIN us} |->
            UserIdsWith(us, uid)]]

hasAnySubscribersGroupsOnly(idx, uid) ==
    uid \in DOMAIN idx.streamerToGroups /\ Len(idx.streamerToGroups[uid]) > 0

\* hasAnySubscribers
hasAnySubscribers(idx, uid) ==
    LET groupCount == IF uid \in DOMAIN idx.streamerToGroups
                      THEN Len(idx.streamerToGroups[uid]) ELSE 0
        userCount == IF uid \in DOMAIN idx.streamerToUsers
                     THEN Len(idx.streamerToUsers[uid]) ELSE 0
    IN  groupCount > 0 \/ userCount > 0

\* ------------------------------------------------------------ store calls
\* lastOp: the call, its result, and for removeStreamer the number of subscriber
\* lists that held uid when it was called (0 for the other calls)
NoOp == [op |-> "none", id |-> 0, uid |-> 0, ret |-> "none", listedBy |-> 0]
Called(op, id, uid, ret, listedBy) ==
    [op |-> op, id |-> id, uid |-> uid, ret |-> ret, listedBy |-> listedBy]

\* live_time as the remote API reports it with a status
LiveTimeOf(st) == IF st = LIVE THEN LiveStartTime ELSE 0

NewStreamer(uid, st) == [uid |-> uid, liveStatus |-> st, liveTime |-> LiveTimeOf(st)]

getOrCreateGroupSubAtAllOn(gs, groupId) ==
    IF groupId \in DOMAIN gs THEN gs
    ELSE MapSet(gs, groupId, [groupId |-> groupId, streamerUids |-> << >>,
                              enableAtAll |-> TRUE, enabled |-> TRUE])

\* getOrCreateGroupSub / getOrCreateUserSub
getOrCreateGroupSub(gs, groupId) ==
    IF groupId \in DOMAIN gs THEN gs
    ELSE MapSet(gs, groupId, [groupId |-> groupId, streamerUids |-> << >>,
                              enableAtAll |-> FALSE, enabled |-> TRUE])
getOrCreateUserSub(us, userId) ==
    IF userId \in DOMAIN us THEN us
    ELSE MapSet(us, userId, [userId |-> userId, streamerUids |-> << >>])

\* The store as a value: the three Maps and the index of SubscriptionStorage,
\* and the data files behind them.
Store(ss, gs, us, idx, d) ==
    [streamers |-> ss, groupSubs |-> gs, userSubs |-> us, index |-> idx, disk |-> d]

\* what a store call leaves behind and what it answers ("throw": it threw)
Result(s, ret) == [s |-> s, ret |-> ret]

setStreamerReindexing(s, uid, st) ==
    LET ss == MapSet(s.streamers, uid, NewStreamer(uid, st))
    IN  Result([s EXCEPT !.streamers = ss, !.disk = saveStreamers(@, ss),
                         !.index = updateStreamerIndex(@, s.groupSubs, s.userSubs, uid)],
               "void")

\* setStreamer(streamer)
setStreamer(s, uid, st) ==
    LET ss == MapSet(s.streamers, uid, NewStreamer(uid, st))
    IN  Result([s EXCEPT !.streamers = ss, !.disk = saveStreamers(@, ss)], "void")

\* setStreamers(streamers), the array holding the profile of each of uids with
\* the status sts gives it: every one is set, then one save
setStreamers(s, uids, sts) ==
    LET ss == [uid \in DOMAIN s.streamers \cup uids |->
                  IF uid \in uids THEN NewStreamer(uid, sts[uid]) ELSE s.streamers[uid]]
    IN  Result([s EXCEPT !.streamers = ss, !.disk = saveStreamers(@, ss)], "void")

\* the subscriber lists after removeStreamer's two purge loops
PurgeSkipsGroups(gs, uid) == gs

PurgeGroups(gs, uid) ==
    [g \in DOMAIN gs |->
        IF IndexOf(gs[g].streamerUids, uid) # 0
        THEN [gs[g] EXCEPT !.streamerUids = Splice(@, IndexOf(@, uid))]
        ELSE gs[g]]
PurgeSkipsUsers(us, uid) == us

PurgeUsers(us, uid) ==
    [u \in DOMAIN us |->
        IF IndexOf(us[u].streamerUids, uid) # 0
        THEN [us[u] EXCEPT !.streamerUids = Splice(@, IndexOf(@, uid))]
        ELSE us[u]]

\* removeStreamer(uid)
removeStreamer(s, uid) ==
    IF ~HasStreamer(s.streamers, uid) THEN Result(s, "false")
    ELSE LET gs == PurgeGroups(s.groupSubs, uid)
             us == PurgeUsers(s.userSubs, uid)
             ss == MapDelete(s.streamers, uid)
             idx == [streamerToGroups |-> MapDelete(s.index.streamerToGroups, uid),
                     streamerToUsers  |-> MapDelete(s.index.streamerToUsers, uid)]
         IN  Result(Store(ss, gs, us, idx, saveAll(s.disk, ss, gs, us)), "true")

\* the `includes` test of subscribeGroup / subscribeUser
AlreadyListedIgnored(arr, uid) == FALSE

AlreadyListed(arr, uid) == Includes(arr, uid)

\* the `has` test of subscribeGroup / subscribeUser
StreamerMissingIgnored(ss, uid) == FALSE

StreamerMissing(ss, uid) == ~HasStreamer(ss, uid)

\* subscribeGroup(groupId, uid)
subscribeGroup(s, groupId, uid) ==
    IF StreamerMissing(s.streamers, uid) THEN Result(s, "throw")
    ELSE LET created == getOrCreateGroupSub(s.groupSubs, groupId)
         IN  IF AlreadyListed(created[groupId].streamerUids, uid)
             THEN Result([s EXCEPT !.groupSubs = created], "false")
             ELSE LET gs == [created EXCEPT ![groupId].streamerUids = Append(@, uid)]
                  IN  Result([s EXCEPT
                                 !.groupSubs = gs,
                                 !.index = updateStreamerIndex(@, gs, s.userSubs, uid),
                                 !.disk = saveGroupSubs(@, gs)],
                             "true")

unsubscribeGroupIndexFirst(s, groupId, uid) ==
    LET idx == IF groupId \in DOMAIN s.groupSubs
               THEN IndexOf(s.groupSubs[groupId].streamerUids, uid) ELSE 0
        gs == IF idx = 0 THEN s.groupSubs
              ELSE [s.groupSubs EXCEPT ![groupId].streamerUids = Splice(@, idx)]
        t == [s EXCEPT !.groupSubs = gs,
                       !.index = updateStreamerIndex(@, gs, s.userSubs, uid)]
    IN  IF idx = 0 THEN Result(t, "false")
        ELSE Result([t EXCEPT !.disk = saveGroupSubs(@, gs)], "true")

\* unsubscribeGroup(groupId, uid)
unsubscribeGroup(s, groupId, uid) ==
    IF groupId \notin DOMAIN s.groupSubs THEN Result(s, "false")
    ELSE LET idx == IndexOf(s.groupSubs[groupId].streamerUids, uid)
             gs == [s.groupSubs EXCEPT ![groupId].streamerUids = Splice(@, idx)]
         IN  IF idx = 0 THEN Result(s, "false")
             ELSE Result([s EXCEPT
                            !.groupSubs = gs,
                            !.index = updateStreamerIndex(@, gs, s.userSubs, uid),
                            !.disk = saveGroupSubs(@, gs)],
                         "true")

\* subscribeUser(userId, uid)
subscribeUser(s, userId, uid) ==
    IF StreamerMissing(s.streamers, uid) THEN Result(s, "throw")
    ELSE LET created == getOrCreateUserSub(s.userSubs, userId)
         IN  IF AlreadyListed(created[userId].streamerUids, uid)
             THEN Result([s EXCEPT !.userSubs = created], "false")
             ELSE LET us == [created EXCEPT ![userId].streamerUids = Append(@, uid)]
                  IN  Result([s EXCEPT
                                 !.userSubs = us,
                                 !.index = updateStreamerIndex(@, s.groupSubs, us, uid),
                                 !.disk = saveUserSubs(@, us)],
                             "true")

\* unsubscribeUser(userId, uid)
unsubscribeUser(s, userId, uid) ==
    IF userId \notin DOMAIN s.userSubs THEN Result(s, "false")
    ELSE LET idx == IndexOf(s.userSubs[userId].streamerUids, uid)
             us == [s.userSubs EXCEPT ![userId].streamerUids = Splice(@, idx)]
         IN  IF idx = 0 THEN Result(s, "false")
             ELSE Result([s EXCEPT
                            !.userSubs = us,
                            !.index = updateStreamerIndex(@, s.groupSubs, us, uid),
                            !.disk = saveUserSubs(@, us)],
                         "true")

\* getGroupSubscribedStreamers(groupId) / getUserSubscribedStreamers(userId)
SubscribedStreamersSorted(ss, subs, id) ==
    IF id \notin DOMAIN subs THEN << >>
    ELSE [i \in 1..Len(Ascending(ToSet(subs[id].streamerUids) \cap DOMAIN ss)) |->
             ss[Ascending(ToSet(subs[id].streamerUids) \cap DOMAIN ss)[i]]]

\* the body the two share: the list mapped to the records, the uids without
\* a record dropped
SubscribedStreamersOf(ss, subs, id) ==
    IF id \notin DOMAIN subs THEN << >>
    ELSE LET held == SelectSeq(subs[id].streamerUids, LAMBDA uid : HasStreamer(ss, uid))
         IN  [i \in 1..Len(held) |-> ss[held[i]]]

getGroupSubscribedStreamers(s, groupId) == SubscribedStreamersOf(s.streamers, s.groupSubs, groupId)
getUserSubscribedStreamers(s, userId) == SubscribedStreamersOf(s.streamers, s.userSubs, userId)

\* setGroupAtAll(groupId, enable)
setGroupAtAll(s, groupId, enable) ==
    LET gs == [getOrCreateGroupSub(s.groupSubs, groupId) EXCEPT ![groupId].enableAtAll = enable]
    IN  Result([s EXCEPT !.groupSubs = gs, !.disk = saveGroupSubs(@, gs)], "void")

\* setGroupEnabled(groupId, enabled)
setGroupEnabled(s, groupId, enabled) ==
    LET gs == [getOrCreateGroupSub(s.groupSubs, groupId) EXCEPT ![groupId].enabled = enabled]
    IN  Result([s EXCEPT !.groupSubs = gs, !.disk = saveGroupSubs(@, gs)], "void")

\* ------------------------------------------------------------ chat commands
\* A message event, after parseCommand: message_type, id (group_id of a group
\* message, user_id of a private one), admin (sender.role is admin or owner),
\* subCommand (the first word after the prefix, lower case), uid and arg (what
\* args[0] parses to for the handlers that read a uid or on / off; the one
\* that reads neither gets the first uid, the one that reads no on / off
\* gets none).
\* The words the model sends: the ones the help text lists and the ones the
\* switch has a case for (its Chinese aliases of add, list, remove and atall
\* go the same way as these).
Advertised == {"sub", "unsub", "list", "atall"}
SubCommands == Advertised \cup {"help", "add", "remove"}

ChatEvents(uids) ==
    {e \in [message_type : {"group", "private"}, id : GroupIds \cup UserIds,
            admin : BOOLEAN, subCommand : SubCommands, uid : uids,
            arg : {"on", "off", "none"}] :
        /\ e.message_type = "group" => e.id \in GroupIds
        /\ e.message_type = "private" => e.id \in UserIds /\ e.admin
        /\ e.subCommand # "atall" => e.arg = "none"
        /\ e.subCommand \in {"list", "help", "atall"} => \A uid \in uids : e.uid <= uid}

\* what getLiveRoomStatusBatch([uid]) gives handleSubscribe: no room, or the
\* room with its liveStatus
Lookups == {{}} \cup {{st} : st \in Statuses}

isAdmin(event) == event.message_type # "group" \/ event.admin

\* what a handler did: the store it left, and the store call it made, if any
NoCall == [op |-> "none", id |-> 0, uid |-> 0, ret |-> "none"]
Handled(s, handler, call) == [s |-> s, handler |-> handler, call |-> call]
Made(op, event, r) ==
    [op |-> op, id |-> event.id, uid |-> event.uid, ret |-> r.ret]

handleSubscribeUnchecked(s, event, lookup) ==
    LET uid == event.uid
        known == HasStreamer(s.streamers, uid)
        stored == IF known \/ lookup = {} THEN s
                  ELSE setStreamer(s, uid, CHOOSE st \in lookup : TRUE).s
    IN  IF event.message_type = "group"
        THEN IF ~isAdmin(event) THEN Handled(stored, "handleSubscribe", NoCall)
             ELSE LET r == subscribeGroup(stored, event.id, uid)
                  IN  Handled(r.s, "handleSubscribe", Made("subscribeGroup", event, r))
        ELSE LET r == subscribeUser(stored, event.id, uid)
             IN  Handled(r.s, "handleSubscribe", Made("subscribeUser", event, r))

\* handleSubscribe
handleSubscribe(s, event, lookup) ==
    LET uid == event.uid
        known == HasStreamer(s.streamers, uid)
        stored == IF known THEN s
                  ELSE setStreamer(s, uid, CHOOSE st \in lookup : TRUE).s
    IN  IF ~known /\ lookup = {} THEN Handled(s, "handleSubscribe", NoCall)
        ELSE IF event.message_type = "group"
        THEN IF ~isAdmin(event) THEN Handled(stored, "handleSubscribe", NoCall)
             ELSE LET r == subscribeGroup(stored, event.id, uid)
                  IN  Handled(r.s, "handleSubscribe", Made("subscribeGroup", event, r))
        ELSE LET r == subscribeUser(stored, event.id, uid)
             IN  Handled(r.s, "handleSubscribe", Made("subscribeUser", event, r))

\* handleUnsubscribe
handleUnsubscribe(s, event) ==
    IF ~HasStreamer(s.streamers, event.uid) THEN Handled(s, "handleUnsubscribe", NoCall)
    ELSE IF event.message_type = "group"
    THEN IF ~isAdmin(event) THEN Handled(s, "handleUnsubscribe", NoCall)
         ELSE LET r == unsubscribeGroup(s, event.id, event.uid)
              IN  Handled(r.s, "handleUnsubscribe", Made("unsubscribeGroup", event, r))
    ELSE LET r == unsubscribeUser(s, event.id, event.uid)
         IN  Handled(r.s, "handleUnsubscribe", Made("unsubscribeUser", event, r))

\* handleList: the list queries, and a reply
handleList(s, event) == Handled(s, "handleList", NoCall)

\* handleAtAll
handleAtAll(s, event) ==
    IF event.message_type # "group" \/ ~isAdmin(event) \/ event.arg = "none"
    THEN Handled(s, "handleAtAll", NoCall)
    ELSE LET r == setGroupAtAll(s, event.id, event.arg = "on")
         IN  Handled(r.s, "handleAtAll",
                     [op |-> "setGroupAtAll", id |-> event.id, uid |-> 0, ret |-> r.ret])

\* the switch of handleMessage
Dispatch(s, event, lookup) ==
    CASE event.subCommand = "add" -> handleSubscribe(s, event, lookup)
      [] event.subCommand = "list" -> handleList(s, event)
      [] event.subCommand = "remove" -> handleUnsubscribe(s, event)
      [] event.subCommand = "atall" -> handleAtAll(s, event)
      [] event.subCommand = "help" -> Handled(s, "reply", NoCall)
      [] OTHER -> Handled(s, "none", NoCall)

\* handleMessage. ready: pluginState._ctx is set; without it line 186 throws.
\* For a group message line 190 calls pluginState.isGroupEnabled, which
\* PluginState does not have: the call throws a TypeError, the catch of line
\* 269 logs it and the message is dropped.
handleMessage(s, event, lookup, ready) ==
    IF ~ready THEN Handled(s, "threw", NoCall)
    ELSE IF event.message_type = "group" THEN Handled(s, "threw", NoCall)
    ELSE Dispatch(s, event, lookup)

\* ------------------------------------------------------------ live monitor
DefaultCacheLive == [lastLiveStatus |-> 1, lastLiveTime |-> 0]

\* the snapshot processStreamerStatus works on when the cache has none
DefaultCache == [lastLiveStatus |-> 0, lastLiveTime |-> 0]

\* loadCache: live_cache.json into the Map of a new LiveMonitorService
loadCacheForgets(d) == EmptyMap

loadCache(d) == d.liveCache

\* saveCache: the Map into live_cache.json
saveCache(d, cache) == [d EXCEPT !.liveCache = cache]

\* lines 111-119 of processStreamerStatus: which notification a poll result calls for
TransitionFromOfflineOnly(oldStatus, currentStatus) ==
    IF oldStatus = 0 /\ currentStatus = LIVE THEN "start"
    ELSE IF oldStatus = LIVE /\ currentStatus # LIVE THEN "end"
    ELSE "none"

TransitionOnLive(oldStatus, currentStatus) ==
    IF currentStatus = LIVE THEN "start"
    ELSE IF oldStatus = LIVE THEN "end"
    ELSE "none"

Transition(oldStatus, currentStatus) ==
    LET wasLive == oldStatus = LIVE
        isLive == currentStatus = LIVE
    IN  IF ~wasLive /\ isLive THEN "start"
        ELSE IF wasLive /\ ~isLive THEN "end"
        ELSE "none"

\* getStreamerSubscribedGroups, as an array of ids
getStreamerEnabledGroupsUnfiltered(idx, gs, uid) ==
    LET groupIds == IF uid \in DOMAIN idx.streamerToGroups
                    THEN idx.streamerToGroups[uid] ELSE << >>
    IN  SelectSeq(groupIds, LAMBDA g : g \in DOMAIN gs)

getStreamerSubscribedUsersNone(idx, us, uid) == << >>

\* getStreamerEnabledGroups / getStreamerSubscribedUsers, as arrays of ids
getStreamerEnabledGroups(idx, gs, uid) ==
    LET groupIds == IF uid \in DOMAIN idx.streamerToGroups
                    THEN idx.streamerToGroups[uid] ELSE << >>
    IN  SelectSeq(groupIds, LAMBDA g : g \in DOMAIN gs /\ gs[g].enabled)
getStreamerSubscribedUsers(idx, us, uid) ==
    LET userIds == IF uid \in DOMAIN idx.streamerToUsers
                   THEN idx.streamerToUsers[uid] ELSE << >>
    IN  SelectSeq(userIds, LAMBDA u : u \in DOMAIN us)

\* the streamers checkAllStreamers polls: getAllStreamers().filter(hasAnySubscribers)
SubscribedStreamers(ss, idx) == Ascending({uid \in DOMAIN ss : hasAnySubscribers(idx, uid)})

\* A checkAllStreamers call in flight. todo: the streamers of its for loop not
\* yet done with, the first being the one in processStreamerStatus; statusMap:
\* the fetch result for them; kind, groups, users: the notification being sent
\* and the recipients sendToSubscribers has still to reach.
NewCycle(gen, subscribedStreamers) ==
    [gen |-> gen, pc |-> "fetch", todo |-> subscribedStreamers, statusMap |-> EmptyMap,
     kind |-> "none", groups |-> << >>, users |-> << >>]

NoCycle == [gen |-> 0, pc |-> "done", todo |-> << >>, statusMap |-> EmptyMap,
            kind |-> "none", groups |-> << >>, users |-> << >>]

\* The part of the world one synchronous stretch of a poll cycle changes.
World(ss, d, cache) ==
    [streamers |-> ss, disk |-> d, cache |-> cache,
     events |-> << >>, completed |-> << >>, sent |-> << >>]

RECURSIVE RunLoop(_, _)
RECURSIVE processStreamerStatus(_, _)

\* processStreamerStatus after its notification, if any, went out (lines 118,
\* 126-127), and back in the for loop
FinishStatus(w, c) ==
    LET uid == Head(c.todo)
        cur == c.statusMap[uid]
        cache == IF uid \in DOMAIN w.cache THEN w.cache[uid] ELSE DefaultCache
        entry == [lastLiveStatus |-> cur,
                  lastLiveTime |-> IF c.kind = "start" THEN LiveTimeOf(cur)
                                   ELSE cache.lastLiveTime]
    IN  RunLoop([w EXCEPT !.cache = MapSet(@, uid, entry),
                          !.completed = Append(@, [gen |-> c.gen, uid |-> uid,
                                                   status |-> cur])],
                [c EXCEPT !.todo = Tail(@), !.statusMap = MapDelete(@, uid),
                          !.kind = "none"])

\* the NotificationMessage of sendLiveStartNotification (text and the cover)
\* and of sendLiveEndNotification (text only)
LiveMessage(kind) == [text |-> kind, image |-> kind = "start"]

\* buildMessageSegments
buildMessageSegmentsNoAtAll(message, atAll) ==
    <<[type |-> "text", data |-> message.text]>>
    \o (IF message.image THEN <<[type |-> "image", data |-> "file"]>> ELSE << >>)

buildMessageSegments(message, atAll) ==
    (IF atAll THEN <<[type |-> "at", data |-> "all"], [type |-> "text", data |-> "\n"]>>
     ELSE << >>)
    \o <<[type |-> "text", data |-> message.text]>>
    \o (IF message.image THEN <<[type |-> "image", data |-> "file"]>> ELSE << >>)

\* sendToSubscribers: the next send_msg call, or the return when nobody is left.
\* The snapshot holds the GroupSubscription objects, so enableAtAll is the
\* flag as it is when the group's message is built.
NextSend(w, c) ==
    LET uid == Head(c.todo)
    IN  IF c.groups # << >>
        THEN LET g == Head(c.groups)
                 messageSegments ==
                     buildMessageSegments(LiveMessage(c.kind),
                                          g \in DOMAIN groupSubs /\ groupSubs[g].enableAtAll)
             IN  [w |-> [w EXCEPT !.sent = Append(@,
                            [gen |-> c.gen, uid |-> uid, kind |-> c.kind,
                             to |-> "group", id |-> g, message |-> messageSegments])],
                  c |-> [c EXCEPT !.pc = "send", !.groups = Tail(@)]]
        ELSE IF c.users # << >>
        THEN LET userMessageSegments == buildMessageSegments(LiveMessage(c.kind), FALSE)
             IN  [w |-> [w EXCEPT !.sent = Append(@,
                            [gen |-> c.gen, uid |-> uid, kind |-> c.kind,
                             to |-> "user", id |-> Head(c.users),
                             message |-> userMessageSegments])],
                  c |-> [c EXCEPT !.pc = "send", !.users = Tail(@)]]
        ELSE FinishStatus(w, c)

\* processStreamerStatus up to its first await on the transport
processStreamerStatus(w, c) ==
    LET uid == Head(c.todo)
        cur == c.statusMap[uid]
        hadEntry == uid \in DOMAIN w.cache
        cache == IF hadEntry THEN w.cache[uid] ELSE DefaultCache
        oldStatus == cache.lastLiveStatus
        kind == Transition(oldStatus, cur)
        \* storage.setStreamer(streamer), line 108
        stored == setStreamer(Store(w.streamers, groupSubs, userSubs, index, w.disk),
                              uid, cur).s
    IN  IF ~ctxReady
        THEN \* storage.setStreamer: the Map is set, then saveDataFile throws on
             \* pluginState.ctx; checkAllStreamers catches and the cycle is over
             [w |-> [w EXCEPT !.streamers = stored.streamers], c |-> NoCycle]
        ELSE LET w1 == [w EXCEPT !.streamers = stored.streamers,
                                 !.disk = stored.disk,
                                 !.events = Append(@, [gen |-> c.gen, uid |-> uid,
                                                       old |-> oldStatus, new |-> cur,
                                                       kind |-> kind,
                                                       hadEntry |-> hadEntry])]
             IN  IF kind = "none"
                 THEN FinishStatus(w1, [c EXCEPT !.kind = "none"])
                 ELSE NextSend(w1, [c EXCEPT
                          !.kind = kind,
                          !.groups = getStreamerEnabledGroups(index, groupSubs, uid),
                          !.users = getStreamerSubscribedUsers(index, userSubs, uid)])

RunLoopMissingOffline(w, c) ==
    IF c.todo = << >>
    THEN [w |-> IF ctxReady THEN [w EXCEPT !.disk = saveCache(@, w.cache)] ELSE w,
          c |-> NoCycle]
    ELSE IF Head(c.todo) \notin DOMAIN c.statusMap
    THEN processStreamerStatus(w, [c EXCEPT !.statusMap = MapSet(@, Head(c.todo), 0)])
    ELSE processStreamerStatus(w, c)

\* the for loop of checkAllStreamers from the first streamer of c.todo on, and
\* the saveCache after it (which throws on pluginState.ctx after plugin_cleanup)
RunLoop(w, c) ==
    IF c.todo = << >>
    THEN [w |-> IF ctxReady THEN [w EXCEPT !.disk = saveCache(@, w.cache)] ELSE w,
          c |-> NoCycle]
    ELSE IF Head(c.todo) \notin DOMAIN c.statusMap
    THEN RunLoop(w, [c EXCEPT !.todo = Tail(@)])
    ELSE processStreamerStatus(w, c)

\* ---------------------------------------------------------- program steps
progVars == <<streamers, groupSubs, userSubs, index, disk, ctxReady, instance,
              monitors, cycles, lastOp, events, completed, sent>>
histVars == <<obs, fresh, probe, scen>>
feedVars == <<clock, remote, dynInstance, dynamicCache, dynDisk, dynCycles>>
feedHistVars == <<polls, notified, marks, seededAt, polled, seen>>
vars == <<progVars, histVars, feedVars, feedHistVars, attempts, pipe>>

\* a step that is no part of a poll cycle reports nothing
NoOutput ==
    /\ events' = << >>
    /\ completed' = << >>
    /\ sent' = << >>

InFlight(cyc) == BagCardinality(cyc)

\* checkAllStreamers up to `await getLiveRoomStatusBatch(uids)`: cyc with the
\* new call in flight, or cyc itself when nobody is subscribed to anything
checkAllStreamers(cyc, gen, ss, idx) ==
    LET subscribedStreamers == SubscribedStreamers(ss, idx)
    IN  IF subscribedStreamers = << >> THEN cyc
        ELSE cyc (+) SetToBag({NewCycle(gen, subscribedStreamers)})

CanCheck(cyc, ss, idx) ==
    SubscribedStreamers(ss, idx) = << >> \/ InFlight(cyc) < MaxInFlight

\* the LiveMonitorService objects something still refers to
Referenced(mons, inst, cyc) ==
    [g \in {x \in DOMAIN mons : x = inst \/ \E c \in BagToSet(cyc) : c.gen = x} |-> mons[g]]

\* loadAll: the three loaders, then rebuildIndex
loadGroupSubs(d) ==
    [g \in DOMAIN d.groupSubs |->
        [groupId |-> g, streamerUids |-> d.groupSubs[g].streamerUids,
         enableAtAll |-> d.groupSubs[g].enableAtAll, enabled |-> d.groupSubs[g].enabled]]
loadUserSubs(d) ==
    [u \in DOMAIN d.userSubs |->
        [userId |-> u, streamerUids |-> d.userSubs[u].streamerUids]]

\* the name of the next LiveMonitorService object
NewMonitor(mons) == CHOOSE g \in 1..(MaxInFlight + 1) :
                        g \notin DOMAIN mons /\ \A h \in 1..(g - 1) : h \in DOMAIN mons

\* plugin_init: pluginState.init (storage.loadAll), startLiveMonitor
pluginInit ==
    /\ ~ctxReady
    /\ instance = 0
    /\ ctxReady' = TRUE
    /\ streamers' = disk.streamers
    /\ groupSubs' = loadGroupSubs(disk)
    /\ userSubs' = loadUserSubs(disk)
    /\ index' = rebuildIndex(groupSubs', userSubs')
    /\ instance' = NewMonitor(monitors)
    /\ monitors' = MapSet(monitors, instance',
                          [isRunning |-> TRUE, cronJob |-> TRUE,
                           liveCache |-> loadCache(disk)])
    /\ CanCheck(cycles, streamers', index')
    /\ cycles' = checkAllStreamers(cycles, instance', streamers', index')
    /\ lastOp' = NoOp
    /\ NoOutput
    /\ UNCHANGED disk

pluginCleanupCronLeft ==
    /\ ctxReady
    /\ disk' = IF instance # 0 THEN saveCache(disk, monitors[instance].liveCache) ELSE disk
    /\ ctxReady' = FALSE
    /\ lastOp' = NoOp
    /\ NoOutput
    /\ UNCHANGED <<streamers, groupSubs, userSubs, index, cycles, instance, monitors>>

\* plugin_cleanup: stopLiveMonitor (stop: cron off, saveCache), pluginState.cleanup
pluginCleanup ==
    /\ ctxReady
    /\ IF instance # 0 /\ monitors[instance].isRunning
       THEN /\ monitors' = Referenced([monitors EXCEPT ![instance].isRunning = FALSE,
                                                       ![instance].cronJob = FALSE],
                                      0, cycles)
            /\ disk' = saveCache(disk, monitors[instance].liveCache)
       ELSE /\ monitors' = Referenced(monitors, 0, cycles)
            /\ UNCHANGED disk
    /\ instance' = 0
    /\ ctxReady' = FALSE
    /\ lastOp' = NoOp
    /\ NoOutput
    /\ UNCHANGED <<streamers, groupSubs, userSubs, index, cycles>>

\* the cron job of the running monitor fires
tick ==
    /\ instance # 0
    /\ monitors[instance].cronJob
    /\ CanCheck(cycles, streamers, index)
    /\ cycles' = checkAllStreamers(cycles, instance, streamers, index)
    /\ lastOp' = NoOp
    /\ NoOutput
    /\ UNCHANGED <<streamers, groupSubs, userSubs, index, disk, ctxReady, instance,
                   monitors>>

\* what the poll cycle c did in one synchronous stretch that left it as r.c
Resume(c, r) ==
    LET rest == cycles (-) SetToBag({c})
        left == IF r.c.pc = "done" THEN rest ELSE rest (+) SetToBag({r.c})
    IN  /\ streamers' = r.w.streamers
        /\ disk' = r.w.disk
        /\ cycles' = left
        /\ monitors' = Referenced([monitors EXCEPT ![c.gen].liveCache = r.w.cache],
                                  instance, left)
        /\ events' = r.w.events
        /\ completed' = r.w.completed
        /\ sent' = r.w.sent
        /\ lastOp' = NoOp
        /\ UNCHANGED <<groupSubs, userSubs, index, ctxReady, instance>>

\* the partial answers getLiveRoomStatusBatch can give for the uids asked
StatusMaps(uids, sts) == UNION {[S -> sts] : S \in SUBSET uids}

\* getLiveRoomStatusBatch settles for the cycle c
fetchDone(c, statusMap) ==
    /\ c \in BagToSet(cycles)
    /\ c.pc = "fetch"
    /\ DOMAIN statusMap \subseteq ToSet(c.todo)
    /\ IF ~ctxReady
       THEN \* its pluginState.logger calls throw, checkAllStreamers catches
            Resume(c, [w |-> World(streamers, disk, monitors[c.gen].liveCache),
                       c |-> NoCycle])
       ELSE Resume(c, RunLoop(World(streamers, disk, monitors[c.gen].liveCache),
                              [c EXCEPT !.statusMap = statusMap]))

\* the send_msg call the cycle c awaits settles; sendToSubscribers goes on to
\* the next recipient whether it resolved or rejected (the catch only logs)
sendDone(c) ==
    /\ c \in BagToSet(cycles)
    /\ c.pc = "send"
    /\ Resume(c, NextSend(World(streamers, disk, monitors[c.gen].liveCache), c))

\* ------------------------------------------------------- history variables
\* the status the running monitor caches for uid, -1 when it has no snapshot
CachedStatus(uid) ==
    IF instance # 0 /\ uid \in DOMAIN monitors[instance].liveCache
    THEN monitors[instance].liveCache[uid].lastLiveStatus
    ELSE -1

\* the processStreamerStatus calls for uid the running monitor finished in this step
Finished(uid) ==
    {i \in 1..Len(completed') : completed'[i].uid = uid /\ completed'[i].gen = instance}

ObserveRestart ==
    /\ probe' = [i \in 1..Len(events') |->
                    [first |-> events'[i].gen = instance /\ events'[i].uid \in fresh,
                     seen |-> obs[events'[i].uid]]]
    /\ obs' = [uid \in Uids |->
                  IF Finished(uid) = {} THEN obs[uid]
                  ELSE completed'[CHOOSE i \in Finished(uid) :
                                      \A j \in Finished(uid) : j <= i].status]
    /\ fresh' = IF instance = 0 /\ instance' # 0 THEN Uids
                ELSE {uid \in fresh : Finished(uid) = {}}

\* One poll result in the scenario "cached OFFLINE; polls report LIVE, LIVE,
\* OFFLINE": s polls of it went as expected so far (3: all of it), 9: the
\* event of a poll was not the expected one.
ScenStep(s, cached, new, kind) ==
    IF s = 9 THEN 9
    ELSE IF s = 1
    THEN IF new = LIVE THEN (IF kind = "none" THEN 2 ELSE 9) ELSE 0
    ELSE IF s = 2
    THEN IF new = 0 THEN (IF kind = "end" THEN 3 ELSE 9) ELSE 0
    ELSE IF cached = 0 /\ new = LIVE THEN (IF kind = "start" THEN 1 ELSE 9)
    ELSE 0

Classified(uid) == {i \in 1..Len(events') : events'[i].uid = uid}

ObserveScenario ==
    scen' = [uid \in Uids |->
                IF Classified(uid) = {} THEN scen[uid]
                ELSE LET e == events'[CHOOSE i \in Classified(uid) : TRUE]
                     IN  IF Cardinality(Classified(uid)) = 1
                         THEN ScenStep(scen[uid], CachedStatus(uid), e.new, e.kind)
                         ELSE 9]

\* the recipients of an array of send_msg calls, as a bag
RECURSIVE BagOfSends(_)
BagOfSends(calls) ==
    IF calls = << >> THEN EmptyBag
    ELSE SetToBag({[to |-> Head(calls).to, id |-> Head(calls).id]}) (+) BagOfSends(Tail(calls))

\* the subscribers of uid as the subscription lists have them
EnabledGroupsOf(uid) ==
    {g \in DOMAIN groupSubs : Includes(groupSubs[g].streamerUids, uid) /\ groupSubs[g].enabled}
DisabledGroupsOf(uid) ==
    {g \in DOMAIN groupSubs : Includes(groupSubs[g].streamerUids, uid) /\ ~groupSubs[g].enabled}
UsersOf(uid) == {u \in DOMAIN userSubs : Includes(userSubs[u].streamerUids, uid)}

Recipient(to, id) == [to |-> to, id |-> id]

\* no sendToSubscribers call yet
NoAttempts == [open |-> FALSE, uid |-> 0, groups |-> {}, users |-> {}, skipped |-> {},
               tried |-> EmptyBag, last |-> Recipient("none", 0), failed |-> {}]

\* The record of the sendToSubscribers call in progress, with the cycles one
\* after the other. A step that classified a transition made a new call: the
\* enabled groups, the disabled groups and the users listing the streamer at
\* that moment are noted. Every send_msg call of the step is counted in tried;
\* when the send that was in flight (last) was rejected (~ok), its recipient
\* goes to failed.
ObserveAttempts(ok) ==
    LET started == {i \in 1..Len(events') : events'[i].kind # "none"}
        issued == BagOfSends(sent')
        sending == \E c \in BagToSet(cycles') : c.pc = "send"
        last == IF sent' = << >> THEN Recipient("none", 0)
                ELSE Recipient(sent'[Len(sent')].to, sent'[Len(sent')].id)
    IN  attempts' =
            IF started # {}
            THEN LET uid == events'[CHOOSE i \in started : TRUE].uid
                 IN  [open |-> sending, uid |-> uid,
                      groups |-> EnabledGroupsOf(uid), users |-> UsersOf(uid),
                      skipped |-> DisabledGroupsOf(uid),
                      tried |-> issued, last |-> last, failed |-> {}]
            ELSE [attempts EXCEPT
                     !.open = sending,
                     !.tried = @ (+) issued,
                     !.last = last,
                     !.failed = IF ok \/ attempts.last.to = "none" THEN @
                                ELSE @ \cup {attempts.last}]

\* One step of the group g in the scenario "subscribeGroup(g, uid) throws for
\* a streamer the store never held; setStreamer(uid); subscribeGroup(g, uid)
\* answers true; the next poll reports uid LIVE". 8: uid was polled before g
\* subscribed, or the next poll reported another status.
PipeStep(stage, g, uid) ==
    LET taken == {i \in 1..Len(events') : events'[i].uid = uid}
        mine == lastOp'.uid = uid
    IN  IF taken # {}
        THEN IF stage = 3 THEN (IF \A i \in taken : events'[i].new = LIVE THEN 4 ELSE 8)
             ELSE IF stage = 4 THEN 5
             ELSE IF stage = 2 THEN 8
             ELSE stage
        ELSE IF lastOp'.op = "subscribeGroup" /\ mine /\ lastOp'.id = g
        THEN IF stage = 0 /\ lastOp'.ret = "throw" THEN 1
             ELSE IF stage = 2 /\ lastOp'.ret = "true" THEN 3
             ELSE stage
        ELSE IF lastOp'.op = "setStreamer" /\ mine /\ stage = 1 THEN 2
        ELSE stage

ObservePipeline(uid) == pipe' = [g \in GroupIds |-> PipeStep(pipe[g], g, uid)]

\* ------------------------------------------------------------ feed monitor
\* the instants the clock is read at, and how far the remote site's clock may
\* be off the local one when it stamps an item, in seconds
Instants == {0, 500, 1000}
Skews == {-1, 0, 1}
\* items the remote feeds hold at most, feed polls started at most
MaxItems == 2
MaxPolls == 3
\* pub_ts is in seconds, lastCheckTime in milliseconds
MsPerSecond == 1000

\* findNewDynamicsByTime
findNewDynamicsNotStrict(dynamics, lastCheckTime) ==
    SelectSeq(dynamics, LAMBDA dynamic : dynamic.pub_ts * MsPerSecond >= lastCheckTime)

findNewDynamicsByTime(dynamics, lastCheckTime) ==
    SelectSeq(dynamics, LAMBDA dynamic : dynamic.pub_ts * MsPerSecond > lastCheckTime)

\* the filter on SKIP_DYNAMIC_TYPES
SkipTypes(dynamics) == SelectSeq(dynamics, LAMBDA dynamic : ~dynamic.live)

\* the order in which `for (let i = length - 1; i >= 0; i--)` takes an array
LastToFirst(arr) == [i \in 1..Len(arr) |-> arr[Len(arr) + 1 - i]]

\* what getUserDynamics can resolve to for a feed holding items: nothing (the
\* request failed, or the feed is empty), or the items in some order
FetchResults(items) ==
    {<< >>} \cup {arr \in [1..Cardinality(items) -> items] :
                     \A i, j \in 1..Cardinality(items) : arr[i] = arr[j] => i = j}

\* A checkAllStreamers call of the feed monitor in flight. n: its number; todo:
\* the streamers of its for loop not yet done with, the first being the one in
\* checkStreamerDynamic; now: the Date.now() of line 109; queue: the new items
\* not yet notified, the first being the one in sendDynamicNotification;
\* groups, users: the recipients sendToSubscribers has still to reach.
\* fetched (ids of the items fetched) and order (pub_ts of the items notified
\* so far) are read by the properties only.
NewFeedCycle(n, subscribedStreamers) ==
    [n |-> n, pc |-> "fetch", todo |-> subscribedStreamers, now |-> 0, queue |-> << >>,
     groups |-> << >>, users |-> << >>, fetched |-> {}, order |-> << >>]

\* what one synchronous stretch of a feed cycle leaves behind
FeedWorld(cache, sentSoFar, seenSoFar, c) ==
    [cache |-> cache, notified |-> sentSoFar, seen |-> seenSoFar, c |-> c]

RECURSIVE nextDynamic(_, _)

finishDynamicAtLatestItem(f, c) ==
    LET latest == CHOOSE t \in {c.order[i] : i \in 1..Len(c.order)} :
                      \A i \in 1..Len(c.order) : c.order[i] <= t
        mark == IF c.order = << >> THEN c.now ELSE latest * MsPerSecond
    IN  [f EXCEPT !.cache = MapSet(@, Head(c.todo), [lastCheckTime |-> mark]),
                  !.seen = @ \cup c.fetched,
                  !.c = [c EXCEPT !.pc = "delay", !.queue = << >>]]

\* checkStreamerDynamic after its loop (lines 143-144), then back in
\* checkAllStreamers at `await this.delay(1000)`
finishDynamic(f, c) ==
    [f EXCEPT !.cache = MapSet(@, Head(c.todo), [lastCheckTime |-> c.now]),
              !.seen = @ \cup c.fetched,
              !.c = [c EXCEPT !.pc = "delay", !.queue = << >>]]

\* sendToSubscribers for the item Head(c.queue): the next send_msg call, or
\* the return to the loop when nobody is left
feedNextSend(f, c) ==
    LET dynamic == Head(c.queue)
        call(to, id) == [item |-> dynamic.id, pub_ts |-> dynamic.pub_ts,
                         at |-> dynamic.at, poll |-> c.n, to |-> to, id |-> id]
    IN  IF c.groups # << >>
        THEN [f EXCEPT !.notified = @ (+) SetToBag({call("group", Head(c.groups))}),
                       !.c = [c EXCEPT !.pc = "send", !.groups = Tail(@)]]
        ELSE IF c.users # << >>
        THEN [f EXCEPT !.notified = @ (+) SetToBag({call("user", Head(c.users))}),
                       !.c = [c EXCEPT !.pc = "send", !.users = Tail(@)]]
        ELSE nextDynamic(f, [c EXCEPT !.queue = Tail(@)])

\* the loop of lines 129-133 at the item Head(c.queue): sendDynamicNotification
\* up to its first send_msg call
nextDynamic(f, c) ==
    IF c.queue = << >> THEN finishDynamic(f, c)
    ELSE LET uid == Head(c.todo)
             known == HasStreamer(streamers, uid)
         IN  feedNextSend(f, [c EXCEPT
                 !.order = Append(@, Head(c.queue).pub_ts),
                 !.groups = IF known THEN getStreamerEnabledGroups(index, groupSubs, uid)
                            ELSE << >>,
                 !.users = IF known THEN getStreamerSubscribedUsers(index, userSubs, uid)
                           ELSE << >>])

\* checkStreamerDynamic from line 107 on, dynamics being what getUserDynamics
\* resolved to
checkStreamerDynamic(f, c, dynamics) ==
    LET uid == Head(c.todo)
    IN  IF dynamics = << >> THEN [f EXCEPT !.c = [c EXCEPT !.pc = "delay"]]
        ELSE IF uid \notin DOMAIN f.cache
        THEN [f EXCEPT !.cache = MapSet(@, uid, [lastCheckTime |-> clock]),
                       !.c = [c EXCEPT !.pc = "delay"]]
        ELSE LET newDynamics == findNewDynamicsByTime(dynamics, f.cache[uid].lastCheckTime)
                 filteredDynamics == SkipTypes(newDynamics)
             IN  nextDynamic(f, [c EXCEPT
                     !.now = clock,
                     !.queue = LastToFirst(filteredDynamics),
                     !.fetched = {dynamics[i].id : i \in 1..Len(dynamics)},
                     !.order = << >>])

\* loadCache / saveCache of the feed monitor
loadDynamicCache(d) == d
saveDynamicCache(cache) == cache

\* a step of the feed monitor: the live monitor and the store stay as they are
FeedOnly ==
    /\ lastOp' = NoOp
    /\ NoOutput
    /\ UNCHANGED <<streamers, groupSubs, userSubs, index, disk, ctxReady, instance,
                   monitors, cycles, scen, attempts, pipe>>
    /\ ObserveRestart

\* what the feed cycle c did in one synchronous stretch that left f behind
FeedResume(c, f) ==
    LET rest == dynCycles (-) SetToBag({c})
    IN  /\ dynCycles' = IF f.c.pc = "done" THEN rest ELSE rest (+) SetToBag({f.c})
        /\ dynamicCache' = f.cache
        /\ notified' = f.notified
        /\ seen' = f.seen
        /\ FeedOnly

\* startDynamicMonitor: new DynamicMonitorService (loadCache), start, whose
\* first check finds what plugin_init just loaded
startDynamicMonitor ==
    /\ dynInstance' = TRUE
    /\ dynamicCache' = IF dynInstance THEN dynamicCache ELSE loadDynamicCache(dynDisk)
    /\ LET subscribedStreamers == SubscribedStreamers(streamers', index')
       IN  IF subscribedStreamers = << >> \/ ~(polls < MaxPolls)
           THEN UNCHANGED <<dynCycles, polls>>
           ELSE /\ polls' = polls + 1
                /\ dynCycles' = dynCycles (+)
                       SetToBag({NewFeedCycle(polls + 1, subscribedStreamers)})
    /\ UNCHANGED <<clock, remote, dynDisk, notified, marks, seededAt, polled, seen>>

\* stopDynamicMonitor: stop (cron off, saveCache), instance = null
stopDynamicMonitor ==
    /\ dynInstance' = FALSE
    /\ dynDisk' = IF dynInstance THEN saveDynamicCache(dynamicCache) ELSE dynDisk
    /\ UNCHANGED <<clock, remote, dynamicCache, dynCycles>>
    /\ UNCHANGED feedHistVars

feedTickWhenLiveIdle ==
    /\ cycles = EmptyBag
    /\ dynInstance
    /\ ctxReady
    /\ polls < MaxPolls
    /\ BagCardinality(dynCycles) < MaxInFlight
    /\ SubscribedStreamers(streamers, index) # << >>
    /\ polls' = polls + 1
    /\ dynCycles' = dynCycles (+)
           SetToBag({NewFeedCycle(polls + 1, SubscribedStreamers(streamers, index))})
    /\ FeedOnly
    /\ UNCHANGED <<clock, remote, dynInstance, dynamicCache, dynDisk, notified, marks,
                   seededAt, polled, seen>>

\* the cron job of the feed monitor fires: checkAllStreamers up to
\* `await getUserDynamics(uid)` for its first streamer
feedTick ==
    /\ dynInstance
    /\ ctxReady
    /\ polls < MaxPolls
    /\ BagCardinality(dynCycles) < MaxInFlight
    /\ SubscribedStreamers(streamers, index) # << >>
    /\ polls' = polls + 1
    /\ dynCycles' = dynCycles (+)
           SetToBag({NewFeedCycle(polls + 1, SubscribedStreamers(streamers, index))})
    /\ FeedOnly
    /\ UNCHANGED <<clock, remote, dynInstance, dynamicCache, dynDisk, notified, marks,
                   seededAt, polled, seen>>

\* getUserDynamics settles for the cycle c
feedFetchDone(c, dynamics) ==
    LET uid == Head(c.todo)
        cached == uid \in DOMAIN dynamicCache
        w == FeedWorld(dynamicCache, notified, seen, c)
        \* after plugin_cleanup the pluginState.logger calls of getUserDynamics
        \* throw, its catch block included: checkAllStreamers catches and the
        \* cycle is over
        f == IF ctxReady THEN checkStreamerDynamic(w, c, dynamics)
             ELSE [w EXCEPT !.c = [c EXCEPT !.pc = "done"]]
        compared == ctxReady /\ dynamics # << >>
    IN  /\ c \in BagToSet(dynCycles)
        /\ c.pc = "fetch"
        /\ dynamics \in FetchResults(remote[uid])
        /\ FeedResume(c, f)
        /\ marks' = [marks EXCEPT ![c.n] = IF compared /\ cached
                                           THEN dynamicCache[uid].lastCheckTime ELSE -1]
        /\ seededAt' = [seededAt EXCEPT ![uid] = IF compared /\ ~cached THEN clock ELSE @]
        /\ polled' = IF ctxReady THEN polled \cup {uid} ELSE polled
        /\ UNCHANGED <<clock, remote, dynInstance, dynDisk, polls>>

\* the send_msg call the feed cycle c awaits settles, resolved or rejected
feedSendDone(c) ==
    /\ c \in BagToSet(dynCycles)
    /\ c.pc = "send"
    /\ FeedResume(c, feedNextSend(FeedWorld(dynamicCache, notified, seen, c), c))
    /\ UNCHANGED <<clock, remote, dynInstance, dynDisk, polls, marks, seededAt, polled>>

\* the delay after a streamer is over: the next streamer of the loop, or
\* saveCache and the end of the cycle
feedDelayDone(c) ==
    LET todo == Tail(c.todo)
        next == IF todo = << >> \/ ~ctxReady THEN [c EXCEPT !.pc = "done"]
                ELSE IF ~HasStreamer(streamers, Head(todo))
                THEN [c EXCEPT !.todo = todo, !.pc = "delay"]
                ELSE [c EXCEPT !.todo = todo, !.pc = "fetch"]
    IN  /\ c \in BagToSet(dynCycles)
        /\ c.pc = "delay"
        /\ FeedResume(c, FeedWorld(dynamicCache, notified, seen, next))
        /\ dynDisk' = IF todo = << >> /\ ctxReady THEN saveDynamicCache(dynamicCache)
                      ELSE dynDisk
        /\ UNCHANGED <<clock, remote, dynInstance, polls, marks, seededAt, polled>>

\* time passes
advance ==
    /\ \E t \in Instants : t > clock /\ clock' = t
    /\ UNCHANGED <<remote, dynInstance, dynamicCache, dynDisk, dynCycles>>
    /\ UNCHANGED feedHistVars

\* the streamer uid posts an item, which the site stamps with its own clock
publish(uid, skew, live) ==
    LET count == Cardinality(UNION {remote[u] : u \in DOMAIN remote})
        pub_ts == (clock \div MsPerSecond) + skew
    IN  /\ count < MaxItems
        /\ pub_ts >= 0
        /\ remote' = [remote EXCEPT ![uid] = @ \cup
                         {[id |-> count + 1, pub_ts |-> pub_ts, live |-> live, at |-> clock]}]
        /\ UNCHANGED <<clock, dynInstance, dynamicCache, dynDisk, dynCycles>>
        /\ UNCHANGED feedHistVars

\* ------------------------------------------------------------------ actions
TheStore == Store(streamers, groupSubs, userSubs, index, disk)

\* a command handler makes the store call that gave r
StoreCall(op, id, uid, r) ==
    /\ UNCHANGED <<ctxReady, instance, monitors, cycles>>
    /\ NoOutput
    /\ streamers' = r.s.streamers
    /\ groupSubs' = r.s.groupSubs
    /\ userSubs' = r.s.userSubs
    /\ index' = r.s.index
    /\ disk' = r.s.disk
    /\ lastOp' = Called(op, id, uid, r.ret,
                         IF op = "removeStreamer"
                         THEN Len(GroupIdsWith(groupSubs, uid)) + Len(UserIdsWith(userSubs, uid))
                         ELSE 0)
    /\ ObserveRestart
    /\ UNCHANGED scen
    /\ UNCHANGED <<feedVars, feedHistVars, attempts>>

Call(op, id, uid, r) == StoreCall(op, id, uid, r) /\ UNCHANGED pipe

Init ==
    /\ streamers = EmptyMap
    /\ groupSubs = EmptyMap
    /\ userSubs = EmptyMap
    /\ index = [streamerToGroups |-> EmptyMap, streamerToUsers |-> EmptyMap]
    /\ disk = [streamers |-> EmptyMap, groupSubs |-> EmptyMap, userSubs |-> EmptyMap,
               liveCache |-> EmptyMap]
    /\ ctxReady = FALSE
    /\ instance = 0
    /\ monitors = EmptyMap
    /\ cycles = EmptyBag
    /\ lastOp = NoOp
    /\ events = << >>
    /\ completed = << >>
    /\ sent = << >>
    /\ obs = [uid \in Uids |-> -1]
    /\ fresh = {}
    /\ probe = << >>
    /\ scen = [uid \in Uids |-> 0]
    /\ clock = 0
    /\ remote = [uid \in Uids |-> {}]
    /\ dynInstance = FALSE
    /\ dynamicCache = EmptyMap
    /\ dynDisk = EmptyMap
    /\ dynCycles = EmptyBag
    /\ polls = 0
    /\ notified = EmptyBag
    /\ marks = [n \in 1..MaxPolls |-> -1]
    /\ seededAt = [uid \in Uids |-> -1]
    /\ polled = {}
    /\ seen = {}
    /\ attempts = NoAttempts
    /\ pipe = [g \in GroupIds |-> 0]

\* the feed monitor shares nothing with the live monitor but the store, which
\* it only reads: the specifications of the live monitor leave it out
NoFeed == UNCHANGED <<feedVars, feedHistVars>>

PluginInit == pluginInit /\ ObserveRestart /\ UNCHANGED scen /\ NoFeed /\ UNCHANGED <<attempts, pipe>>

PluginCleanup == pluginCleanup /\ ObserveRestart /\ UNCHANGED scen /\ NoFeed /\ UNCHANGED <<attempts, pipe>>

\* plugin_init with both monitors
PluginInitBoth ==
    pluginInit /\ ObserveRestart /\ UNCHANGED <<scen, attempts, pipe>> /\ startDynamicMonitor

\* plugin_cleanup with both monitors
PluginCleanupBoth ==
    pluginCleanup /\ ObserveRestart /\ UNCHANGED <<scen, attempts, pipe>> /\ stopDynamicMonitor

\* the store's interface, called with the profile of a streamer that is offline
SetStreamer ==
    \E uid \in Uids :
        /\ ctxReady
        /\ Call("setStreamer", 0, uid, setStreamer(TheStore, uid, 0))

RemoveStreamer ==
    \E uid \in Uids :
        /\ ctxReady
        /\ Call("removeStreamer", 0, uid, removeStreamer(TheStore, uid))

SubscribeGroup ==
    \E groupId \in GroupIds, uid \in Uids :
        /\ ctxReady
        /\ Call("subscribeGroup", groupId, uid, subscribeGroup(TheStore, groupId, uid))

UnsubscribeGroup ==
    \E groupId \in GroupIds, uid \in Uids :
        /\ ctxReady
        /\ Call("unsubscribeGroup", groupId, uid, unsubscribeGroup(TheStore, groupId, uid))

SubscribeUser ==
    \E userId \in UserIds, uid \in Uids :
        /\ ctxReady
        /\ Call("subscribeUser", userId, uid, subscribeUser(TheStore, userId, uid))

UnsubscribeUser ==
    \E userId \in UserIds, uid \in Uids :
        /\ ctxReady
        /\ Call("unsubscribeUser", userId, uid, unsubscribeUser(TheStore, userId, uid))

\* handleSubscribe for a streamer the store may not know yet: the profile
\* looked up (liveStatus st, one of sts) is stored, then the sender is subscribed
Known(s, uid, st) ==
    IF HasStreamer(s.streamers, uid) THEN s ELSE setStreamer(s, uid, st).s

\* a group admin sends the subscribe command for one of uids in one of groups
HandleSubscribeGroup(groups, uids, sts) ==
    \E groupId \in groups, uid \in uids, st \in sts :
        /\ ctxReady
        /\ Call("subscribeGroup", groupId, uid,
                subscribeGroup(Known(TheStore, uid, st), groupId, uid))

\* a user sends it in a private chat
HandleSubscribeUser(users, uids, sts) ==
    \E userId \in users, uid \in uids, st \in sts :
        /\ ctxReady
        /\ Call("subscribeUser", userId, uid,
                subscribeUser(Known(TheStore, uid, st), userId, uid))

Tick == tick /\ ObserveRestart /\ UNCHANGED scen /\ NoFeed /\ UNCHANGED <<attempts, pipe>>

FetchDone ==
    \E c \in BagToSet(cycles), statusMap \in StatusMaps(Uids, Statuses) :
        fetchDone(c, statusMap) /\ ObserveRestart /\ UNCHANGED scen /\ NoFeed /\ UNCHANGED <<attempts, pipe>>

SendDone ==
    \E c \in BagToSet(cycles) :
        sendDone(c) /\ ObserveRestart /\ UNCHANGED scen /\ NoFeed /\ UNCHANGED <<attempts, pipe>>

\* polls that do not overlap: the cron job fires after the cycle before it ended
TickAlone == cycles = EmptyBag /\ tick /\ ObserveRestart /\ UNCHANGED scen /\ NoFeed /\ UNCHANGED <<attempts, pipe>>

FetchDoneAlone ==
    \E c \in BagToSet(cycles), statusMap \in StatusMaps(Uids, Statuses) :
        fetchDone(c, statusMap) /\ ObserveRestart /\ ObserveScenario /\ NoFeed /\ UNCHANGED <<attempts, pipe>>

SendDoneAlone ==
    \E c \in BagToSet(cycles) :
        sendDone(c) /\ ObserveRestart /\ ObserveScenario /\ NoFeed /\ UNCHANGED <<attempts, pipe>>

\* the group admin's atall on / off command
HandleAtAll(groups) ==
    \E groupId \in groups, enable \in BOOLEAN :
        /\ ctxReady
        /\ Call("setGroupAtAll", groupId, 0, setGroupAtAll(TheStore, groupId, enable))

\* plugin_onmessage for a chat message that starts with the command prefix
HandleMessage(messages, lookups) ==
    \E event \in messages, lookup \in lookups :
        LET h == handleMessage(TheStore, event, lookup, ctxReady)
        IN  /\ h.handler \in {"threw", "none", "reply", "handleSubscribe",
                              "handleUnsubscribe", "handleList", "handleAtAll"}
            /\ Call(h.call.op, h.call.id, h.call.uid, Result(h.s, h.call.ret))

\* the store's setGroupEnabled, which no command calls
SetGroupEnabled(groups) ==
    \E groupId \in groups, enabled \in BOOLEAN :
        /\ ctxReady
        /\ Call("setGroupEnabled", groupId, 0, setGroupEnabled(TheStore, groupId, enabled))

\* the poll steps with the delivery attempts on record; a send_msg call
\* resolves (ok) or rejects
FetchDoneNotify ==
    \E c \in BagToSet(cycles), statusMap \in StatusMaps(Uids, Statuses) :
        /\ fetchDone(c, statusMap)
        /\ ObserveRestart /\ UNCHANGED scen /\ NoFeed /\ UNCHANGED pipe /\ ObserveAttempts(TRUE)

SendDoneNotify ==
    \E c \in BagToSet(cycles), ok \in BOOLEAN :
        /\ sendDone(c)
        /\ ObserveRestart /\ UNCHANGED scen /\ NoFeed /\ UNCHANGED pipe /\ ObserveAttempts(ok)

\* the feed monitor's steps and the world it watches
Advance == advance /\ FeedOnly

Publish(uids) ==
    \E uid \in uids, skew \in Skews, live \in BOOLEAN :
        publish(uid, skew, live) /\ FeedOnly

FeedTick == dynInstance /\ feedTick

\* feed polls that do not overlap
FeedTickAlone == dynCycles = EmptyBag /\ feedTick

FeedFetchDone ==
    \E c \in BagToSet(dynCycles) :
        \E dynamics \in FetchResults(remote[Head(c.todo)]) : feedFetchDone(c, dynamics)

FeedSendDone == \E c \in BagToSet(dynCycles) : feedSendDone(c)

FeedDelayDone == \E c \in BagToSet(dynCycles) : feedDelayDone(c)

\* ----------------------------------------------------------- specifications
\* The store under every call of its interface, across unloads and reloads of
\* the plugin. No fetch of a poll settles.
NextStore ==
    \/ PluginInit
    \/ PluginCleanup
    \/ SetStreamer
    \/ RemoveStreamer
    \/ SubscribeGroup
    \/ UnsubscribeGroup
    \/ SubscribeUser
    \/ UnsubscribeUser

SpecStore == Init /\ [][NextStore]_vars

\* The plugin watching one streamer for one group and one user: commands,
\* polls that overlap, unloads and reloads.
Watched == {1}
OneGroup == {1}

Next ==
    \/ PluginInit
    \/ PluginCleanup
    \/ HandleSubscribeGroup(OneGroup, Watched, Statuses)
    \/ HandleSubscribeUser(UserIds, Watched, Statuses)
    \/ Tick
    \/ FetchDone
    \/ SendDone

Spec == Init /\ [][Next]_vars

\* The plugin loaded once, watching every streamer for one group and one
\* user, its polls one after the other.

NextSeq ==
    \/ PluginInit
    \/ HandleSubscribeGroup(OneGroup, Uids, Statuses)
    \/ HandleSubscribeUser(UserIds, Uids, Statuses)
    \/ TickAlone
    \/ FetchDoneAlone
    \/ SendDoneAlone

SpecSeq == Init /\ [][NextSeq]_vars

\* The whole pipeline for one streamer and two groups, from the store's
\* interface to the messages: the plugin loaded once, polls one after the
\* other, every send resolving or rejecting.
TheWatched == CHOOSE uid \in Watched : TRUE

SetStreamerOf(uids) ==
    \E uid \in uids :
        /\ ctxReady
        /\ StoreCall("setStreamer", 0, uid, setStreamer(TheStore, uid, 0))
        /\ ObservePipeline(TheWatched)

SubscribeGroupTo(groups, uids) ==
    \E groupId \in groups, uid \in uids :
        /\ ctxReady
        /\ StoreCall("subscribeGroup", groupId, uid, subscribeGroup(TheStore, groupId, uid))
        /\ ObservePipeline(TheWatched)

FetchDonePipeline ==
    \E c \in BagToSet(cycles), statusMap \in StatusMaps(Uids, Statuses) :
        /\ fetchDone(c, statusMap)
        /\ ObserveRestart /\ UNCHANGED scen /\ NoFeed /\ ObserveAttempts(TRUE)
        /\ ObservePipeline(TheWatched)

SendDonePipeline ==
    \E c \in BagToSet(cycles), ok \in BOOLEAN :
        /\ sendDone(c)
        /\ ObserveRestart /\ UNCHANGED scen /\ NoFeed /\ ObserveAttempts(ok)
        /\ ObservePipeline(TheWatched)

NextPipeline ==
    \/ PluginInit
    \/ SetStreamerOf(Watched)
    \/ SubscribeGroupTo(GroupIds, Watched)
    \/ HandleAtAll(GroupIds)
    \/ TickAlone
    \/ FetchDonePipeline
    \/ SendDonePipeline

SpecPipeline == Init /\ [][NextPipeline]_vars

\* The plugin as its chat commands drive it: every message of ChatEvents for
\* one streamer, the plugin loaded once, polls one after the other.
NextChat ==
    \/ PluginInit
    \/ HandleMessage(ChatEvents(Watched), Lookups)
    \/ TickAlone
    \/ FetchDoneNotify
    \/ SendDoneNotify

SpecChat == Init /\ [][NextChat]_vars

\* The same under the scheduling the code can count on: the cron job fires
\* and a send_msg call to the local transport settles. When the remote API
\* answers is up to the remote API: fetch is called without a signal, and
\* REQUEST_TIMEOUT (part_009 line 11) is read nowhere, so nothing makes a
\* pending getLiveRoomStatusBatch settle.
SpecHang ==
    /\ Init /\ [][NextChat]_vars
    /\ WF_vars(TickAlone)
    /\ WF_vars(SendDoneNotify)

\* The feed monitor watching one streamer, offline when it was looked up, for
\* one user, its polls overlapping.
NextFeed ==
    \/ PluginInitBoth
    \/ HandleSubscribeUser(UserIds, Watched, {0})
    \/ Advance
    \/ Publish(Watched)
    \/ FeedTick
    \/ FeedFetchDone
    \/ FeedSendDone
    \/ FeedDelayDone

SpecFeed == Init /\ [][NextFeed]_vars

\* The feed monitor watching it for one group and one user, its polls one
\* after the other.
NextFeedSeq ==
    \/ PluginInitBoth
    \/ HandleSubscribeGroup(OneGroup, Watched, {0})
    \/ HandleSubscribeUser(UserIds, Watched, {0})
    \/ Advance
    \/ Publish(Watched)
    \/ FeedTickAlone
    \/ FeedFetchDone
    \/ FeedSendDone
    \/ FeedDelayDone

SpecFeedSeq == Init /\ [][NextFeedSeq]_vars

\* The live monitor notifying two groups and a user of one streamer, while the
\* groups' flags are switched: the plugin loaded once, polls one after the
\* other, every send resolving or rejecting.
NextNotify ==
    \/ PluginInit
    \/ HandleSubscribeGroup(GroupIds, Watched, {0})
    \/ HandleSubscribeUser(UserIds, Watched, {0})
    \/ HandleAtAll(GroupIds)
    \/ SetGroupEnabled(GroupIds)
    \/ TickAlone
    \/ FetchDoneNotify
    \/ SendDoneNotify

SpecNotify == Init /\ [][NextNotify]_vars

\* The live monitor watching three streamers for one user across unloads and
\* reloads of the plugin: the cron job fires after the cycle before it ended,
\* the remote API reports every streamer it answers for live.
Trio == {1, 2, 3}

FetchDoneTrio ==
    \E c \in BagToSet(cycles), statusMap \in StatusMaps(Trio, {LIVE}) :
        /\ fetchDone(c, statusMap)
        /\ UNCHANGED histVars /\ NoFeed /\ UNCHANGED <<attempts, pipe>>

SendDoneTrio ==
    \E c \in BagToSet(cycles) :
        /\ sendDone(c)
        /\ UNCHANGED histVars /\ NoFeed /\ UNCHANGED <<attempts, pipe>>

NextTrio ==
    \/ PluginInit
    \/ PluginCleanup
    \/ HandleSubscribeUser(UserIds, Trio, {0})
    \/ TickAlone
    \/ FetchDoneTrio
    \/ SendDoneTrio

SpecTrio == Init /\ [][NextTrio]_vars

\* Both monitors over a store that changes under them: two streamers, a
\* group and a user subscribing and unsubscribing, the plugin loaded once,
\* the polls of each monitor one after the other, the remote API answering
\* for nobody and the feeds empty.
FetchDoneEmpty ==
    \E c \in BagToSet(cycles) :
        /\ fetchDone(c, EmptyMap)
        /\ ObserveRestart /\ UNCHANGED scen /\ NoFeed /\ UNCHANGED <<attempts, pipe>>

SubscribeGroupIn(groups) ==
    \E groupId \in groups, uid \in Uids :
        /\ ctxReady
        /\ Call("subscribeGroup", groupId, uid, subscribeGroup(TheStore, groupId, uid))

UnsubscribeGroupIn(groups) ==
    \E groupId \in groups, uid \in Uids :
        /\ ctxReady
        /\ Call("unsubscribeGroup", groupId, uid, unsubscribeGroup(TheStore, groupId, uid))

NextTracked ==
    \/ PluginInitBoth
    \/ SetStreamer
    \/ SubscribeGroupIn(OneGroup)
    \/ UnsubscribeGroupIn(OneGroup)
    \/ SubscribeUser
    \/ UnsubscribeUser
    \/ TickAlone
    \/ FetchDoneEmpty
    \/ FeedTickAlone
    \/ FeedFetchDone
    \/ FeedDelayDone

SpecTracked == Init /\ [][NextTracked]_vars

\* Both monitors watching one streamer for one user, each with its own cron
\* job, the polls of each one after the other; no step is ever forced, so
\* either monitor may stay at an await for as long as it likes.
NextBoth ==
    \/ PluginInitBoth
    \/ HandleSubscribeUser(UserIds, Watched, {0})
    \/ Publish(Watched)
    \/ TickAlone
    \/ FetchDone
    \/ SendDone
    \/ FeedTickAlone
    \/ FeedFetchDone
    \/ FeedSendDone
    \/ FeedDelayDone

SpecBoth == Init /\ [][NextBoth]_vars

\* Both monitors across unloads and reloads of the plugin: one streamer, one
\* user, each cron job firing when no cycle of its monitor is in flight (a
\* reload may still start one next to a cycle left from before), the feeds
\* empty.
NextStop ==
    \/ PluginInitBoth
    \/ PluginCleanupBoth
    \/ HandleSubscribeUser(UserIds, Watched, {0})
    \/ TickAlone
    \/ FetchDone
    \/ SendDone
    \/ FeedTickAlone
    \/ FeedFetchDone
    \/ FeedDelayDone

SpecStop == Init /\ [][NextStop]_vars

\* The live monitor watching one streamer for one user while streamers are
\* removed through the store's removeStreamer: the plugin loaded once, polls
\* one after the other.
NextRemove ==
    \/ PluginInit
    \/ HandleSubscribeUser(UserIds, Watched, {0})
    \/ RemoveStreamer
    \/ TickAlone
    \/ FetchDone
    \/ SendDone

SpecRemove == Init /\ [][NextRemove]_vars

\* The live monitor notifying a group and a user of one streamer while they
\* unsubscribe: the plugin loaded once, polls one after the other.
NextUnsub ==
    \/ PluginInit
    \/ HandleSubscribeGroup(OneGroup, Watched, {0})
    \/ HandleSubscribeUser(UserIds, Watched, {0})
    \/ UnsubscribeGroupIn(OneGroup)
    \/ UnsubscribeUser
    \/ TickAlone
    \/ FetchDone
    \/ SendDone

SpecUnsub == Init /\ [][NextUnsub]_vars

\* --------------------------------------------------------------- properties
\* the reverse index entry of uid read as a set, absent = empty
IndexSet(entries, uid) == IF uid \in DOMAIN entries THEN ToSet(entries[uid]) ELSE {}

\* C1: after every store call (and every reload), for every streamer uid the
\* reverse index entries streamerToGroups[uid] and streamerToUsers[uid], read
\* as sets with absent = empty, are exactly the groups and the users whose
\* streamerUids list contains uid.
C1_IndexMatchesLists ==
    \A uid \in Uids \cup DOMAIN index.streamerToGroups \cup DOMAIN index.streamerToUsers :
        /\ IndexSet(index.streamerToGroups, uid) =
               {g \in DOMAIN groupSubs : Includes(groupSubs[g].streamerUids, uid)}
        /\ IndexSet(index.streamerToUsers, uid) =
               {u \in DOMAIN userSubs : Includes(userSubs[u].streamerUids, uid)}

\* a group left a streamer that another group and a user still follow
C1_Witness ==
    /\ lastOp.op = "unsubscribeGroup"
    /\ lastOp.ret = "true"
    /\ IndexSet(index.streamerToGroups, lastOp.uid) = GroupIds \ {lastOp.id}
    /\ IndexSet(index.streamerToUsers, lastOp.uid) = UserIds

\* C2: in every reachable store, for every streamer it knows and every group
\* or user: if the subscriber does not list the streamer, two subscribe calls
\* in a row answer true then false; if it lists it, two unsubscribe calls in a
\* row answer true then false.
TwiceGroup(groupId, uid) ==
    IF groupId \in DOMAIN groupSubs /\ Includes(groupSubs[groupId].streamerUids, uid)
    THEN LET first == unsubscribeGroup(TheStore, groupId, uid)
         IN  first.ret = "true" /\ unsubscribeGroup(first.s, groupId, uid).ret = "false"
    ELSE LET first == subscribeGroup(TheStore, groupId, uid)
         IN  first.ret = "true" /\ subscribeGroup(first.s, groupId, uid).ret = "false"

TwiceUser(userId, uid) ==
    IF userId \in DOMAIN userSubs /\ Includes(userSubs[userId].streamerUids, uid)
    THEN LET first == unsubscribeUser(TheStore, userId, uid)
         IN  first.ret = "true" /\ unsubscribeUser(first.s, userId, uid).ret = "false"
    ELSE LET first == subscribeUser(TheStore, userId, uid)
         IN  first.ret = "true" /\ subscribeUser(first.s, userId, uid).ret = "false"

C2_TwiceTrueThenFalse ==
    \A uid \in DOMAIN streamers :
        /\ \A groupId \in GroupIds : TwiceGroup(groupId, uid)
        /\ \A userId \in UserIds : TwiceUser(userId, uid)

\* a subscribe call was answered false while its group follows both streamers
C2_Witness ==
    /\ lastOp.op = "subscribeGroup"
    /\ lastOp.ret = "false"
    /\ Len(groupSubs[lastOp.id].streamerUids) = Cardinality(Uids)
    /\ \E userId \in DOMAIN userSubs : Includes(userSubs[userId].streamerUids, lastOp.uid)

\* C3: when removeStreamer(uid) has answered true, uid is not in the entity
\* table, no group's and no user's streamerUids list contains uid, and the
\* reverse index has no entry for uid.
C3_RemovedEverywhere ==
    (lastOp.op = "removeStreamer" /\ lastOp.ret = "true") =>
        /\ lastOp.uid \notin DOMAIN streamers
        /\ \A g \in DOMAIN groupSubs : ~Includes(groupSubs[g].streamerUids, lastOp.uid)
        /\ \A u \in DOMAIN userSubs : ~Includes(userSubs[u].streamerUids, lastOp.uid)
        /\ lastOp.uid \notin DOMAIN index.streamerToGroups
        /\ lastOp.uid \notin DOMAIN index.streamerToUsers

\* the streamer removed was followed by every group and every user
C3_Witness ==
    /\ lastOp.op = "removeStreamer"
    /\ lastOp.ret = "true"
    /\ lastOp.listedBy = Cardinality(GroupIds) + Cardinality(UserIds)

\* C4: in every state between two steps, the only states a task can observe,
\* every uid in some group's or user's streamerUids list has a record in the
\* entity table.
C4_ListedHasEntity ==
    /\ \A g \in DOMAIN groupSubs : ToSet(groupSubs[g].streamerUids) \subseteq DOMAIN streamers
    /\ \A u \in DOMAIN userSubs : ToSet(userSubs[u].streamerUids) \subseteq DOMAIN streamers

\* a followed streamer was removed while a subscriber still lists the other one
C4_Witness ==
    /\ lastOp.op = "removeStreamer"
    /\ lastOp.ret = "true"
    /\ lastOp.listedBy > 0
    /\ \E u \in DOMAIN userSubs : userSubs[u].streamerUids # << >>

\* C5: in every reachable store, subscribeGroup and subscribeUser for a uid
\* with no entity record throw and leave the store as it was: no record
\* created, no list changed, the index unchanged.
C5_UnknownStreamerThrows ==
    \A uid \in Uids \ DOMAIN streamers :
        /\ \A groupId \in GroupIds :
               subscribeGroup(TheStore, groupId, uid) = Result(TheStore, "throw")
        /\ \A userId \in UserIds :
               subscribeUser(TheStore, userId, uid) = Result(TheStore, "throw")

\* a subscribe call threw for a group that has no record, in a store that is
\* not empty
C5_Witness ==
    /\ lastOp.op = "subscribeGroup"
    /\ lastOp.ret = "throw"
    /\ lastOp.id \notin DOMAIN groupSubs
    /\ DOMAIN streamers # {}
    /\ DOMAIN userSubs # {}

\* C6: every group's and every user's streamerUids list holds each uid at most
\* once.
NoDuplicates(arr) == \A i, j \in 1..Len(arr) : arr[i] = arr[j] => i = j

C6_NoDuplicateUids ==
    /\ \A g \in DOMAIN groupSubs : NoDuplicates(groupSubs[g].streamerUids)
    /\ \A u \in DOMAIN userSubs : NoDuplicates(userSubs[u].streamerUids)

\* a user that follows both streamers asked again for one of them
C6_Witness ==
    /\ lastOp.op = "subscribeUser"
    /\ lastOp.ret = "false"
    /\ Len(userSubs[lastOp.id].streamerUids) = Cardinality(Uids)

\* what the claim asks of a poll result, given the status cached before it
Expected(previous, new) ==
    IF previous # 1 /\ new = 1 THEN "start"
    ELSE IF previous = 1 /\ new # 1 THEN "end"
    ELSE "none"

\* the snapshot the monitor gen holds for uid before the step
Snapshot(gen, uid) == monitors[gen].liveCache[uid].lastLiveStatus

\* C7: in every step, for every poll result processStreamerStatus takes up for
\* a streamer with a snapshot: it calls for a live-start notification iff the
\* cached status was not 1 and the new one is 1, for a live-end notification
\* iff the cached status was 1 and the new one is not, and for none otherwise;
\* a notification called for goes out to the first subscriber in the same
\* step, and nothing goes out for the streamer when none is called for.
C7_Classification ==
    [][\A i \in 1..Len(events') :
           LET e == events'[i]
               out == {j \in 1..Len(sent') : sent'[j].uid = e.uid}
           IN  e.hadEntry =>
                   /\ e.kind = Expected(Snapshot(e.gen, e.uid), e.new)
                   /\ \A j \in out : sent'[j].kind = e.kind /\ e.kind # "none"
                   /\ (/\ e.kind # "none"
                       /\ \/ getStreamerEnabledGroups(index, groupSubs, e.uid) # << >>
                          \/ getStreamerSubscribedUsers(index, userSubs, e.uid) # << >>)
                      => out # {}]_vars

\* a room went from carousel to offline and nobody was notified
C7_Witness ==
    \E i \in 1..Len(events) :
        /\ events[i].hadEntry
        /\ events[i].old = 2
        /\ events[i].new = 0
        /\ events[i].kind = "none"
        /\ hasAnySubscribers(index, events[i].uid)
        /\ sent = << >>

\* C8: with polls one after the other, whenever a streamer's cached status is
\* OFFLINE and its next three poll results are LIVE, LIVE, OFFLINE, the first
\* gives exactly one live-start event, the second none, the third exactly one
\* live-end event.
C8_StartNoneEnd == \A uid \in Uids : scen[uid] # 9

\* the three polls happened for a streamer
C8_Witness == \E uid \in Uids : scen[uid] = 3

\* C9: a poll result processed for a streamer that has no snapshot in the
\* cache never calls for a live-start notification.
C9_NoStartWithoutSnapshot ==
    \A i \in 1..Len(events) : ~events[i].hadEntry => events[i].kind # "start"

\* C10: when the running monitor takes up its first poll result for a streamer
\* and the last result a monitor finished for that streamer before, while it
\* was the running one, was LIVE, then a result LIVE calls for no live-start
\* notification.
C10_NoStartAfterRestart ==
    \A i \in 1..Len(events) :
        (probe[i].first /\ probe[i].seen = LIVE /\ events[i].new = LIVE)
            => events[i].kind # "start"

\* the reloaded monitor polled a room that was live before the reload, and
\* still is
C10_Witness ==
    \E i \in 1..Len(events) :
        /\ probe[i].first
        /\ probe[i].seen = LIVE
        /\ events[i].new = LIVE
        /\ events[i].kind = "none"
        /\ events[i].hadEntry

\* the items of every remote feed
Items == UNION {remote[uid] : uid \in DOMAIN remote}

\* C11: every send_msg call made for a feed item was made by a poll that found
\* a watermark for the streamer, and the item's pub_ts, in milliseconds, is
\* strictly greater than the watermark that poll compared it against; so no
\* item at or below the watermark is notified by the poll.
C11_OnlyNewerThanWatermark ==
    \A e \in BagToSet(notified) :
        /\ marks[e.poll] # -1
        /\ e.pub_ts * MsPerSecond > marks[e.poll]

\* a poll notified an item and passed over another one it had fetched, whose
\* publish time was the watermark to the millisecond
C11_Witness ==
    \E e \in BagToSet(notified), x \in Items :
        /\ x.id \in seen
        /\ ~x.live
        /\ x.pub_ts * MsPerSecond = marks[e.poll]
        /\ \A d \in BagToSet(notified) : d.poll = e.poll => d.item # x.id

\* C12: within one feed poll of a streamer the items are notified in ascending
\* order of publish time, whatever the order of the fetch result.
C12_AscendingDispatch ==
    \A c \in BagToSet(dynCycles) :
        \A i, j \in 1..Len(c.order) : i < j => c.order[i] <= c.order[j]

\* C13: once the first feed poll of a streamer is over the streamer has a
\* watermark, and a poll that found no watermark notified nothing.
C13_FirstPollSeeds ==
    /\ \A uid \in polled : uid \in DOMAIN dynamicCache
    /\ \A e \in BagToSet(notified) : marks[e.poll] # -1

\* C14: every item that is not of a skipped type, was posted after the
\* streamer's watermark was seeded, carries the second it was posted in as its
\* pub_ts, and was in the fetch result of a later poll that has finished with
\* the streamer, has been notified.
C14_PostedAfterSeedNotified ==
    \A uid \in DOMAIN remote : \A x \in remote[uid] :
        (/\ seededAt[uid] # -1
         /\ x.at > seededAt[uid]
         /\ x.pub_ts = x.at \div MsPerSecond
         /\ ~x.live
         /\ x.id \in seen)
            => \E e \in BagToSet(notified) : e.item = x.id

\* C15: no feed item is notified by two polls of which the later one found
\* the watermark further on than the earlier one did.
C15_NotifiedByOnePoll ==
    \A d, e \in BagToSet(notified) :
        d.item = e.item => ~(marks[d.poll] < marks[e.poll])

\* C16: for every feed item whose pub_ts is not ahead of the local time it was
\* posted at, each subscriber is sent at most one notification, however the
\* timer firings, fetch completions and sends of the feed polls interleave.
C16_OncePerSubscriber ==
    \A d, e \in BagToSet(notified) :
        (/\ e.pub_ts * MsPerSecond <= e.at
         /\ d.item = e.item
         /\ d.to = e.to
         /\ d.id = e.id)
            => d = e /\ CopiesIn(e, notified) = 1

\* C17: when a transition is classified for a streamer that no enabled group
\* and no user lists, the sendToSubscribers call made for it issues no
\* send_msg call: nothing is sent in the step and the cycle awaits no send.
C17_NobodyToNotify ==
    \A i \in 1..Len(events) :
        (/\ events[i].kind # "none"
         /\ EnabledGroupsOf(events[i].uid) = {}
         /\ UsersOf(events[i].uid) = {})
            => /\ \A j \in 1..Len(sent) : sent[j].uid # events[i].uid
               /\ \A c \in BagToSet(cycles) : c.pc # "send"

\* a streamer that only a disabled group lists went live, and nothing was sent
C17_Witness ==
    \E i \in 1..Len(events) :
        /\ events[i].kind = "start"
        /\ EnabledGroupsOf(events[i].uid) = {}
        /\ UsersOf(events[i].uid) = {}
        /\ DisabledGroupsOf(events[i].uid) # {}
        /\ sent = << >>

\* the segments of a message that are the at-all marker, and its text segments
AtAllAt(message) == {k \in 1..Len(message) : message[k].type = "at"}
TextAt(message) == {k \in 1..Len(message) : message[k].type = "text"}

\* C18: every message sent to a group holds the at-all marker iff the group's
\* enableAtAll flag is true in the step that builds it, and then the marker
\* comes before every text segment; a message sent to a user holds no marker.
C18_AtAllIffFlag ==
    \A i \in 1..Len(sent) :
        LET message == sent[i].message
        IN  IF sent[i].to = "group"
            THEN /\ (AtAllAt(message) # {}) = groupSubs[sent[i].id].enableAtAll
                 /\ \A k \in AtAllAt(message), t \in TextAt(message) : k < t
                 /\ TextAt(message) # {}
            ELSE AtAllAt(message) = {}

\* in one call a group with the flag off got its message without the marker,
\* then the next group, with the flag on, got it with the marker
C18_Witness ==
    /\ events = << >>
    /\ Len(sent) = 1
    /\ sent[1].to = "group"
    /\ sent[1].message[1].type = "at"
    /\ \E g \in attempts.groups : g # sent[1].id /\ ~groupSubs[g].enableAtAll

\* the recipients of the call on record
Expected_Recipients ==
    {Recipient("group", g) : g \in attempts.groups}
        \cup {Recipient("user", u) : u \in attempts.users}

\* C19: a sendToSubscribers call makes no send_msg call to anyone but the
\* enabled groups and the users that listed the streamer when it looked them
\* up, none of them twice, and when it returns exactly one to each of them,
\* whichever of the sends were rejected.
C19_OneAttemptEach ==
    /\ BagToSet(attempts.tried) \subseteq Expected_Recipients
    /\ \A r \in Expected_Recipients : CopiesIn(r, attempts.tried) <= 1
    /\ ~attempts.open => \A r \in Expected_Recipients : CopiesIn(r, attempts.tried) = 1

\* a call to two groups and a user returned after the sends to both groups
\* were rejected
C19_Witness ==
    /\ ~attempts.open
    /\ Cardinality(attempts.groups) = 2
    /\ Cardinality(attempts.users) = 1
    /\ attempts.failed = {Recipient("group", g) : g \in attempts.groups}
    /\ BagCardinality(attempts.tried) = 3

\* C20: a group that lists the streamer and has enabled = false when
\* sendToSubscribers looks the subscribers up is sent nothing by that call;
\* all the while a disabled group that lists a streamer is in the streamer's
\* reverse index entry and makes hasAnySubscribers true.
C20_DisabledGroupSkipped ==
    /\ \A r \in BagToSet(attempts.tried) : r.to = "group" => r.id \notin attempts.skipped
    /\ \A uid \in Uids : \A g \in DisabledGroupsOf(uid) :
           /\ hasAnySubscribers(index, uid)
           /\ g \in IndexSet(index.streamerToGroups, uid)

\* a call that skipped a disabled group returned after it reached another
\* group
C20_Witness ==
    /\ ~attempts.open
    /\ attempts.skipped # {}
    /\ attempts.groups # {}
    /\ attempts.skipped \subseteq DisabledGroupsOf(attempts.uid)
    /\ BagCardinality(attempts.tried) = Cardinality(Expected_Recipients)

\* C21: for the streamer of the scenario and every group: while the store
\* does not hold the streamer, subscribeGroup throws; once the streamer was
\* stored after that, subscribeGroup answers true; and when the next poll
\* after that reports the streamer LIVE, the sendToSubscribers call it makes
\* sends the group exactly one message, the live-start one, which holds the
\* at-all marker iff the group's enableAtAll flag is true.
C21_EndToEnd ==
    \A g \in GroupIds :
        LET uid == TheWatched
            r == Recipient("group", g)
        IN  /\ ~HasStreamer(streamers, uid) =>
                   subscribeGroup(TheStore, g, uid) = Result(TheStore, "throw")
            /\ pipe[g] = 1 => ~HasStreamer(streamers, uid)
            /\ pipe[g] = 2 => subscribeGroup(TheStore, g, uid).ret = "true"
            /\ pipe[g] = 3 => Includes(groupSubs[g].streamerUids, uid)
            /\ pipe[g] = 4 =>
                   /\ attempts.uid = uid
                   /\ CopiesIn(r, attempts.tried) <= 1
                   /\ ~attempts.open => CopiesIn(r, attempts.tried) = 1
                   /\ \A i \in 1..Len(sent) :
                          (sent[i].to = "group" /\ sent[i].id = g) =>
                              /\ sent[i].uid = uid
                              /\ sent[i].kind = "start"
                              /\ (AtAllAt(sent[i].message) # {}) = groupSubs[g].enableAtAll

\* a group went through the scenario and was just sent its message, with the
\* marker
C21_Witness ==
    \E g \in GroupIds :
        /\ pipe[g] = 4
        /\ Len(sent) = 1
        /\ sent[1].to = "group"
        /\ sent[1].id = g
        /\ AtAllAt(sent[1].message) # {}
        /\ CopiesIn(Recipient("group", g), attempts.tried) = 1

\* C22: in every reachable store, every call that answers false (subscribeGroup
\* or subscribeUser for a pair already subscribed, unsubscribeGroup or
\* unsubscribeUser for a pair that is not subscribed or a group or user
\* without a record, removeStreamer for a uid the store does not hold) leaves
\* the entity table, every group and user record, the reverse index and the
\* data files as they were.
FalseKeeps(r) == r.ret = "false" => r.s = TheStore

C22_FalseLeavesStore ==
    \A uid \in Uids :
        /\ FalseKeeps(removeStreamer(TheStore, uid))
        /\ \A groupId \in GroupIds :
               /\ FalseKeeps(subscribeGroup(TheStore, groupId, uid))
               /\ FalseKeeps(unsubscribeGroup(TheStore, groupId, uid))
        /\ \A userId \in UserIds :
               /\ FalseKeeps(subscribeUser(TheStore, userId, uid))
               /\ FalseKeeps(unsubscribeUser(TheStore, userId, uid))

\* unsubscribeGroup answered false for a streamer that the group, which has a
\* record, does not list, that has no entry in the reverse index and that
\* the store holds
C22_Witness ==
    /\ lastOp.op = "unsubscribeGroup"
    /\ lastOp.ret = "false"
    /\ lastOp.id \in DOMAIN groupSubs
    /\ HasStreamer(streamers, lastOp.uid)
    /\ lastOp.uid \notin DOMAIN index.streamerToGroups
    /\ \E u \in DOMAIN userSubs : userSubs[u].streamerUids # << >>

\* C23: in every reachable store, for every group and value: setGroupAtAll
\* and setGroupEnabled leave the entity table, the user records, every other
\* group's record and the reverse index as they were; the group's record
\* afterwards is its old record with the named flag set to the value, or, when
\* it had none, the record with an empty streamerUids list, enableAtAll false
\* and enabled true with the named flag set to the value.
FreshGroupSub(groupId) ==
    [groupId |-> groupId, streamerUids |-> << >>, enableAtAll |-> FALSE, enabled |-> TRUE]

RecordBefore(groupId) ==
    IF groupId \in DOMAIN groupSubs THEN groupSubs[groupId] ELSE FreshGroupSub(groupId)

OnlyGroupChanged(r, groupId, record) ==
    /\ r.ret = "void"
    /\ r.s.streamers = streamers
    /\ r.s.userSubs = userSubs
    /\ r.s.index = index
    /\ DOMAIN r.s.groupSubs = DOMAIN groupSubs \cup {groupId}
    /\ \A g \in DOMAIN groupSubs \ {groupId} : r.s.groupSubs[g] = groupSubs[g]
    /\ r.s.groupSubs[groupId] = record

C23_FlagOnly ==
    \A groupId \in GroupIds, value \in BOOLEAN :
        /\ OnlyGroupChanged(setGroupAtAll(TheStore, groupId, value), groupId,
                            [RecordBefore(groupId) EXCEPT !.enableAtAll = value])
        /\ OnlyGroupChanged(setGroupEnabled(TheStore, groupId, value), groupId,
                            [RecordBefore(groupId) EXCEPT !.enabled = value])

\* setGroupEnabled made the record of a group, disabled, while another group
\* with at-all on lists a streamer
C23_Witness ==
    /\ lastOp.op = "setGroupEnabled"
    /\ groupSubs[lastOp.id] = [FreshGroupSub(lastOp.id) EXCEPT !.enabled = FALSE]
    /\ \E g \in DOMAIN groupSubs :
           /\ g # lastOp.id
           /\ groupSubs[g].enableAtAll
           /\ groupSubs[g].streamerUids # << >>
           /\ \E uid \in DOMAIN index.streamerToGroups : Includes(index.streamerToGroups[uid], g)

\* what setStreamer / setStreamers left of the subscriptions
KeepsSubscriptions(r) ==
    /\ r.s.groupSubs = groupSubs
    /\ r.s.userSubs = userSubs
    /\ r.s.index = index

\* C24: in every reachable store setStreamer, for every uid and status, and
\* setStreamers, for every set of uids and statuses, leave every group's and
\* user's record (streamerUids list and flags) and the reverse index as they
\* were; and every step in which setStreamer is called, by a command or by a
\* poll cycle that takes up a fetch result, leaves them as they were.
C24_UpsertKeepsSubscriptions ==
    [][/\ \A uid \in Uids, st \in Statuses : KeepsSubscriptions(setStreamer(TheStore, uid, st))
       /\ \A uids \in SUBSET Uids : \A sts \in [uids -> Statuses] :
              KeepsSubscriptions(setStreamers(TheStore, uids, sts))
       /\ (lastOp'.op = "setStreamer" \/ events' # << >>) =>
              /\ groupSubs' = groupSubs
              /\ userSubs' = userSubs
              /\ index' = index]_vars

\* a poll stored the profile of a streamer gone live that two groups follow,
\* one of them with at-all on
C24_Witness ==
    \E i \in 1..Len(events) :
        /\ events[i].new = LIVE
        /\ streamers[events[i].uid].liveStatus = LIVE
        /\ Len(index.streamerToGroups[events[i].uid]) = Cardinality(GroupIds)
        /\ \E g \in DOMAIN groupSubs : groupSubs[g].enableAtAll

\* the uids of an array of streamer records
UidsOf(records) == [i \in 1..Len(records) |-> records[i].uid]

\* arr without x, the rest in the order it had
Without(arr, x) == SelectSeq(arr, LAMBDA y : y # x)

\* how a step may change what the list query answers for a subscriber: a
\* subscription made puts its streamer last, a subscription ended (by
\* unsubscribe, or by removeStreamer for every subscriber) takes its streamer
\* out, and nothing else changes the order
OrderKept(before, after, made, ended) ==
    IF made THEN ~Includes(before, lastOp'.uid) /\ after = Append(before, lastOp'.uid)
    ELSE IF ended THEN after = Without(before, lastOp'.uid)
    ELSE after = before

\* C25: getGroupSubscribedStreamers and getUserSubscribedStreamers answer
\* with the subscriber's streamers in the order in which the subscriptions
\* still active were made: in every step, a subscribe call answered true adds
\* its streamer at the end of the subscriber's answer, an unsubscribe call
\* answered true or a removeStreamer takes its streamer out and keeps the
\* order of the others, and every other step (a call answered false, an
\* unload, a reload from the data files) leaves the answer as it was.
C25_SubscriptionOrder ==
    [][LET after == Store(streamers', groupSubs', userSubs', index', disk')
           done(op, id) == lastOp'.op = op /\ lastOp'.id = id /\ lastOp'.ret = "true"
           removed == lastOp'.op = "removeStreamer" /\ lastOp'.ret = "true"
       IN  /\ \A groupId \in GroupIds :
                  OrderKept(UidsOf(getGroupSubscribedStreamers(TheStore, groupId)),
                            UidsOf(getGroupSubscribedStreamers(after, groupId)),
                            done("subscribeGroup", groupId),
                            done("unsubscribeGroup", groupId) \/ removed)
           /\ \A userId \in UserIds :
                  OrderKept(UidsOf(getUserSubscribedStreamers(TheStore, userId)),
                            UidsOf(getUserSubscribedStreamers(after, userId)),
                            done("subscribeUser", userId),
                            done("unsubscribeUser", userId) \/ removed)]_vars

\* a group subscribed to the streamer with the smaller uid after the other
\* one, and the list query answers in that order
C25_Witness ==
    /\ lastOp.op = "subscribeGroup"
    /\ lastOp.ret = "true"
    /\ LET answer == UidsOf(getGroupSubscribedStreamers(TheStore, lastOp.id))
       IN  /\ Len(answer) = Cardinality(Uids)
           /\ answer[Len(answer)] = lastOp.uid
           /\ \A i \in 1..(Len(answer) - 1) : answer[i] > lastOp.uid

\* the sender of event is subscribed to its streamer in the store s
SenderSubscribed(s, event) ==
    LET subs == IF event.message_type = "group" THEN s.groupSubs ELSE s.userSubs
    IN  /\ event.id \in DOMAIN subs
        /\ Includes(subs[event.id].streamerUids, event.uid)

\* the handler the help text promises for a command
AdvertisedHandler(subCommand) ==
    CASE subCommand = "sub" -> "handleSubscribe"
      [] subCommand = "unsub" -> "handleUnsubscribe"
      [] subCommand = "list" -> "handleList"
      [] subCommand = "atall" -> "handleAtAll"

\* C26: while the plugin is loaded, every command the help text lists, sent
\* by a sender allowed to use it, is dispatched by handleMessage to its
\* handler (sub to handleSubscribe, unsub to handleUnsubscribe, list to
\* handleList, atall on / off to handleAtAll), and after the sub command for a
\* streamer the store holds or the lookup finds, the sender's group or user is
\* subscribed to the streamer.
C26_AdvertisedDispatched ==
    ctxReady =>
        \A event \in ChatEvents(Uids), lookup \in Lookups \ {{}} :
            LET h == handleMessage(TheStore, event, lookup, ctxReady)
            IN  (event.subCommand \in Advertised /\ isAdmin(event)
                     /\ (event.subCommand = "atall" => event.message_type = "group"))
                    => /\ h.handler = AdvertisedHandler(event.subCommand)
                       /\ event.subCommand = "sub" => SenderSubscribed(h.s, event)

\* C27: at any time at most one checkAllStreamers call of the live monitor
\* and at most one of the feed monitor is in flight (awaiting a fetch, a delay
\* or a send).
C27_OneCycleInFlight ==
    /\ BagCardinality(cycles) <= 1
    /\ BagCardinality(dynCycles) <= 1

\* The poll cycle c ends in this step.
Ends(c) ==
    /\ BagCardinality(cycles') < BagCardinality(cycles)
    /\ CopiesIn(c, cycles') < CopiesIn(c, cycles)

\* the streamers the cycle c still had to do, whose status the remote API
\* supplied, that this step leaves without a finished processStreamerStatus
LeftOut(c) ==
    {uid \in ToSet(c.todo) \cap DOMAIN c.statusMap :
        \A i \in 1..Len(completed') : completed'[i].uid # uid}

\* C28: within one poll cycle a failure while processing one streamer does
\* not stop the cycle from processing the remaining ones: when a cycle that
\* holds a fetch result ends, every streamer it still had to do and whose
\* status the remote API supplied has had its transition classified and its
\* snapshot updated, but for the one whose processing failed.
C28_FailureIsolated ==
    [][\A c \in BagToSet(cycles) : Ends(c) => Cardinality(LeftOut(c)) <= 1]_vars

\* what the running code keeps of the streamer uid: its record in the store
\* and the snapshot the monitor gen caches, "none" where there is none
RecordOf(ss, uid) == IF uid \in DOMAIN ss THEN <<ss[uid]>> ELSE << >>
SnapshotOf(mons, gen, uid) ==
    IF gen \in DOMAIN mons /\ uid \in DOMAIN mons[gen].liveCache
    THEN <<mons[gen].liveCache[uid]>> ELSE << >>

Untouched(gen, uid) ==
    /\ RecordOf(streamers', uid) = RecordOf(streamers, uid)
    /\ gen \in DOMAIN monitors' => SnapshotOf(monitors', gen, uid) = SnapshotOf(monitors, gen, uid)
    /\ \A i \in 1..Len(events') : events'[i].uid # uid
    /\ \A i \in 1..Len(completed') : completed'[i].uid # uid
    /\ \A i \in 1..Len(sent') : sent'[i].uid # uid
    /\ \A d \in BagToSet(cycles') : d.pc = "send" => Head(d.todo) # uid

\* C29: a streamer the poll cycle asked about that is missing from the fetch
\* result (a partial or an empty answer) keeps its status snapshot and its
\* record in the store as they were, and the step classifies nothing and
\* sends nothing for it.
C29_MissingUntouched ==
    [][\A c \in BagToSet(cycles), statusMap \in StatusMaps(Uids, Statuses) :
          fetchDone(c, statusMap) =>
              \A uid \in ToSet(c.todo) \ DOMAIN statusMap : Untouched(c.gen, uid)]_vars

\* a cycle ended having done with one streamer only, while a streamer after
\* it in the cycle's order, live at its last poll, was left as it was
C29_Witness ==
    /\ cycles = EmptyBag
    /\ instance # 0
    /\ \E uid \in Uids, other \in Uids :
          /\ uid < other
          /\ Len(completed) = 1
          /\ completed[1].uid = uid
          /\ other \in DOMAIN monitors[instance].liveCache
          /\ monitors[instance].liveCache[other].lastLiveStatus = LIVE
          /\ streamers[other].liveStatus = LIVE

\* the streamers of the store that a group or a user subscribes to, read off
\* the subscription lists themselves
Tracked(ss, gs, us) ==
    {uid \in DOMAIN ss :
        \/ \E g \in DOMAIN gs : uid \in ToSet(gs[g].streamerUids)
        \/ \E u \in DOMAIN us : uid \in ToSet(us[u].streamerUids)}

\* the checkAllStreamers calls this step starts: of the live monitor (a new
\* call awaits its batch fetch) and of the feed monitor (numbered polls')
StartedLive == {c \in BagToSet(cycles') : CopiesIn(c, cycles') > CopiesIn(c, cycles)
                                          /\ c.pc = "fetch"}
StartedFeed == {d \in BagToSet(dynCycles') : polls' # polls /\ d.n = polls'}

AsksExactly(todo) ==
    /\ todo # << >>
    /\ Len(todo) = Cardinality(ToSet(todo))
    /\ ToSet(todo) = Tracked(streamers', groupSubs', userSubs')

\* a feed cycle asks about the streamers of its list one at a time, each in
\* its turn, and ends after the last
FeedInTurn(c) ==
    LET later == {d \in BagToSet(dynCycles') : d.n = c.n}
    IN  IF later = {} THEN c.pc = "delay" /\ Tail(c.todo) = << >>
        ELSE \A d \in later :
                \/ d.todo = c.todo
                \/ d.todo = Tail(c.todo) /\ c.pc = "delay" /\ d.pc = "fetch"

\* C30: the streamers a poll cycle asks the fetcher about are exactly those
\* of the store with at least one subscribing group or user when the cycle
\* starts (the live monitor in one batch, the feed monitor one after the
\* other); a streamer nobody subscribes to is not on the list, and no cycle
\* starts when the list would be empty.
C30_AsksTracked ==
    [][/\ \A c \in StartedLive : AsksExactly(c.todo)
       /\ \A d \in StartedFeed : AsksExactly(d.todo)
       /\ \A c \in BagToSet(dynCycles) : c \notin BagToSet(dynCycles') => FeedInTurn(c)
       /\ Tracked(streamers', groupSubs', userSubs') = {}
              => StartedLive = {} /\ StartedFeed = {}]_vars

\* a cycle of each monitor awaits its fetch, asking about the one streamer of
\* the two in the store that somebody subscribes to
C30_Witness ==
    LET tracked == Tracked(streamers, groupSubs, userSubs)
    IN  /\ Cardinality(DOMAIN streamers) = 2
        /\ Cardinality(tracked) = 1
        /\ \E c \in BagToSet(cycles) : c.pc = "fetch" /\ ToSet(c.todo) = tracked
        /\ \E d \in BagToSet(dynCycles) : d.pc = "fetch" /\ ToSet(d.todo) = tracked

\* the feed cycle c as this step leaves it
After(c) == {d \in BagToSet(dynCycles') : d.n = c.n}

\* the watermark the feed monitor holds for uid after the step
MarkAfter(uid) == IF uid \in DOMAIN dynamicCache' THEN dynamicCache'[uid].lastCheckTime ELSE -1

\* this step is the arrival of a non-empty fetch result for a seeded streamer
\* in the cycle c: line 109 reads the local time
Compared(c) ==
    /\ c.pc = "fetch"
    /\ c \notin BagToSet(dynCycles')
    /\ Head(c.todo) \in DOMAIN dynamicCache
    /\ marks'[c.n] # -1

\* C31: when a feed poll of a seeded streamer is done with a fetch result
\* (back at the delay of checkAllStreamers), the streamer's watermark is the
\* local time at which the result arrived, whatever the publish timestamps of
\* the items and whether or not an item was notified.
C31_WatermarkIsPollTime ==
    [][\A c \in BagToSet(dynCycles) : \A d \in After(c) :
          /\ Compared(c) => /\ d.now = clock
                            /\ d.pc = "delay" => MarkAfter(Head(c.todo)) = clock
          /\ c.pc = "send" /\ d # c =>
                /\ d.now = c.now
                /\ d.pc = "delay" => MarkAfter(Head(c.todo)) = c.now]_vars

\* a poll notified an item and left the watermark at its own time, which is
\* not the publish time of the item
C31_Witness ==
    \E c \in BagToSet(dynCycles) :
        /\ c.pc = "delay"
        /\ c.order # << >>
        /\ Head(c.todo) \in DOMAIN dynamicCache
        /\ dynamicCache[Head(c.todo)].lastCheckTime = c.now
        /\ \A i \in 1..Len(c.order) : c.order[i] * MsPerSecond # c.now

\* C32: every poll cycle that started eventually finishes, also when the
\* remote API never answers its fetch.
C32_CycleFinishes == (cycles # EmptyBag) ~> (cycles = EmptyBag)

\* the steps of one monitor are taken when they can be: its cron job fires,
\* its fetches, sends and delays settle
LiveRuns == WF_vars(TickAlone) /\ WF_vars(FetchDone) /\ WF_vars(SendDone)
FeedRuns ==
    /\ WF_vars(FeedTickAlone) /\ WF_vars(FeedFetchDone)
    /\ WF_vars(FeedSendDone) /\ WF_vars(FeedDelayDone)

SomeoneSubscribed == Tracked(streamers, groupSubs, userSubs) # {}

\* C33: neither monitor waits for the other. Whatever the feed monitor does,
\* and however long it stays at a fetch, a delay or a send, the live monitor
\* keeps starting cycles on its own cron job and each of them runs to its
\* end; and the same for the feed monitor (as long as it has polls left)
\* whatever the live monitor does.
C33_MonitorsIndependent ==
    /\ LiveRuns => /\ [](instance # 0 /\ SomeoneSubscribed => <>(cycles # EmptyBag))
                   /\ (cycles # EmptyBag) ~> (cycles = EmptyBag)
    /\ FeedRuns => /\ [](dynInstance /\ SomeoneSubscribed /\ polls < MaxPolls
                           => <>(dynCycles # EmptyBag))
                   /\ (dynCycles # EmptyBag) ~> (dynCycles = EmptyBag)

\* a later feed poll is at a send while a cycle of the live monitor awaits
\* its fetch
C33_Witness ==
    /\ polls > 1
    /\ \E c \in BagToSet(cycles) : c.pc = "fetch"
    /\ \E d \in BagToSet(dynCycles) : d.pc = "send"

\* the snapshots the step's finished processStreamerStatus calls left in the
\* status cache are in the persisted one
Persisted(d) ==
    \A i \in 1..Len(completed') :
        (\A j \in (i + 1)..Len(completed') : completed'[j].uid # completed'[i].uid) =>
            /\ completed'[i].uid \in DOMAIN d.liveCache
            /\ d.liveCache[completed'[i].uid].lastLiveStatus = completed'[i].status

\* C34: the persisted status cache equals the one in memory after every full
\* poll cycle and after shutdown: when a cycle ends, the cache of its monitor
\* is on disk, the snapshots it has just updated included, also when
\* plugin_cleanup ran while it was in flight; and plugin_cleanup leaves the
\* running monitor's cache on disk.
C34_CachePersisted ==
    [][/\ \A c \in BagToSet(cycles) : Ends(c) =>
             /\ Persisted(disk')
             /\ c.gen \in DOMAIN monitors' => disk'.liveCache = monitors'[c.gen].liveCache
       /\ ctxReady /\ ~ctxReady' /\ instance # 0 =>
             disk'.liveCache = monitors[instance].liveCache]_vars

\* C35: once plugin_cleanup has stopped a monitor, its cron job starts no
\* poll cycle until plugin_init starts the monitor again: a cycle of the live
\* monitor starts only in a step that leaves a running monitor behind, whose
\* cycle it is, and a cycle of the feed monitor only in a step that leaves
\* the feed monitor running; no cycle starts while the plugin is unloaded.
C35_NoCycleAfterStop ==
    [][/\ \A c \in StartedLive :
             /\ ctxReady'
             /\ instance' # 0 /\ monitors'[instance'].isRunning
             /\ c.gen = instance'
       /\ \A d \in StartedFeed : ctxReady' /\ dynInstance']_vars

\* a cycle that was in flight when the monitors were stopped has just
\* finished a streamer; the plugin is still unloaded
C35_Witness ==
    /\ ~ctxReady
    /\ instance = 0
    /\ ~dynInstance
    /\ completed # << >>

\* the subscribe commands the properties put to handleSubscribe
SubscribeEvents == {e \in ChatEvents(Uids) : e.subCommand = "add"}

\* C36: handleSubscribe for a uid the store has no record of creates the
\* record only when the lookup found the room: when it found nothing the
\* store is left as it is (no record, no subscription) and no store call is
\* made; and whatever the lookup gave, the subscribeGroup / subscribeUser call
\* the command makes never throws for a missing record.
C36_LazyCreation ==
    \A event \in SubscribeEvents, lookup \in Lookups :
        LET h == handleSubscribe(TheStore, event, lookup)
        IN  /\ ~HasStreamer(streamers, event.uid) /\ lookup = {} =>
                  h.s = TheStore /\ h.call = NoCall
            /\ ~HasStreamer(streamers, event.uid) /\ HasStreamer(h.s.streamers, event.uid) =>
                  lookup # {} /\ h.s.streamers[event.uid].liveStatus \in lookup
            /\ h.call.op \in {"subscribeGroup", "subscribeUser"} =>
                  /\ h.call.ret # "throw"
                  /\ HasStreamer(h.s.streamers, event.uid)

\* a subscribe command has just subscribed its sender to a streamer, whose
\* record is in the store, while the other streamer has none
C36_Witness ==
    /\ lastOp.op = "subscribeUser"
    /\ lastOp.ret = "true"
    /\ HasStreamer(streamers, lastOp.uid)
    /\ \E uid \in Uids : ~HasStreamer(streamers, uid)

\* the subscribe and unsubscribe commands of group members who are neither
\* admin nor owner
MemberEvents ==
    {e \in ChatEvents(Uids) : /\ e.message_type = "group"
                              /\ ~e.admin
                              /\ e.subCommand \in {"add", "remove"}}

C38_RemovedStaysRemoved ==
    [][\A uid \in DOMAIN streamers' \ DOMAIN streamers :
          \/ lastOp'.op \in {"subscribeGroup", "subscribeUser", "setStreamer"}
          \/ ~ctxReady /\ ctxReady']_vars

\* the group or user id is subscribed to the streamer uid
SubscribedNow(to, id, uid) ==
    LET subs == IF to = "group" THEN groupSubs ELSE userSubs
    IN  id \in DOMAIN subs /\ uid \in ToSet(subs[id].streamerUids)

\* C39: after unsubscribeGroup / unsubscribeUser returned true for a
\* subscriber and a streamer, nothing about the streamer is sent to the
\* subscriber until it subscribes again, not even by a sendToSubscribers call
\* that was in flight: every send_msg call goes to a group or a user that is
\* subscribed to the streamer when the call is made.
C39_NoDeliveryAfterUnsubscribe ==
    [][\A i \in 1..Len(sent') : SubscribedNow(sent'[i].to, sent'[i].id, sent'[i].uid)]_vars
====
